---- MODULE Spec2Model ----
(***************************************************************************)
(* Model of the push-stream Connection Manager of the agent-ui client     *)
(* (class AgentOrchestrationAPI, src/agent-ui/src/services/api.ts).       *)
(*                                                                         *)
(* The manager owns one WebSocket reference (ws), a list of observer      *)
(* callbacks and the reconnect bookkeeping.  Every WebSocket ever created *)
(* keeps its four handlers, each closing over the callback that was the   *)
(* argument of the connectWebSocket call that created it, so the handlers *)
(* of a socket the manager no longer references still run when the        *)
(* browser dispatches that socket's events.                               *)
(***************************************************************************)
EXTENDS Integers, Sequences, FiniteSets, TLC

\* ---------------------------------------------------------------- bounds
\* Number of WebSocket objects alive at a time: the one this.ws references
\* and the ones that still have a close event to dispatch.  A socket whose
\* close event has been dispatched and that this.ws no longer references is
\* garbage, and its slot is free for the next new WebSocket(...).
MaxLive == 2

\* Number of reconnect timers pending at a time.
MaxTimers == 2

\* Number of calls clients make to the manager in one behaviour.
MaxCalls == 3

\* The observer callbacks that clients may register.
Callbacks == {"cb1", "cb2"}

\* ------------------------------------------------------------- constants
maxReconnectAttempts == 5
BaseDelay == 3000
CapDelay == 30000

NoSocket == 0
NoTimer == 0
NoCallback == "none"

VARIABLES
    sockets,            \* the live WebSocket objects, by slot
    ws,                 \* this.ws: a slot of sockets, NoSocket for null
    wsCallbacks,        \* this.wsCallbacks
    reconnectAttempts,  \* this.reconnectAttempts
    reconnectTimeout,   \* this.reconnectTimeout: a timer id, NoTimer for null
    isReconnecting,     \* this.isReconnecting
    connectionCleanup,  \* this.connectionCleanup
    heartbeatInterval,  \* this.heartbeatInterval: NoTimer for null
    timers,             \* pending setTimeout closures of ws.onclose
    dispatching,        \* socket whose error event ran and whose close event
                        \* follows in the same browser task, else NoSocket
    lastFanout,         \* the last delivery of an event to the observers
    failed,             \* the max-attempts branch of ws.onclose was taken and
                        \* no connect, teardown or open happened since
    lastDelay,          \* delay of the last reconnect scheduled since the
                        \* last open (.open) / last open or teardown (.session)
    lastOp,             \* the handler or method that ran last
    calls               \* number of client calls made so far

vars == <<sockets, ws, wsCallbacks, reconnectAttempts, reconnectTimeout,
          isReconnecting, connectionCleanup, heartbeatInterval, timers,
          dispatching, lastFanout, failed, lastDelay, lastOp, calls>>

(***************************************************************************)
(* State of the hook useAgentOrchestration (src/unnamed/part_000), the    *)
(* client of the manager that keeps the canonical UI state.  The manager  *)
(* actions leave it alone and the hook actions leave the manager alone:   *)
(* the stream events the hook reduces are inputs of its own actions.      *)
(***************************************************************************)

\* ---------------------------------------------------------------- bounds
\* Number of inputs the hook receives in one behaviour: calls of its
\* mutations and stream messages of other origin than this client's own
\* requests.
MaxInputs == 3

\* Length of the agent list and of the relation list of the canonical
\* states the reducer is applied to in SpecReducer.
MaxInitAgents == 2
MaxInitRelations == 2

\* The agent ids, handles and server relation ids that inputs are drawn from.
AgentIds == {"a1", "a2", "a3"}

\* ------------------------------------------------------------- constants
GridSize == 200
GridOffset == 100
GridCells == 10
OccupiedWithin == 50
AgentWidth == 120
AgentHeight == 80

\* undefined, for a string field
Absent == "absent"
\* null, for state.error
NoError == "null"

\* Relation ids.  createConnection builds `temp-...` ids; every other id is
\* one the server knows.  NoId stands for undefined.
NoId == [kind |-> "absent", n |-> 0]
SrvId(n) == [kind |-> "srv", n |-> n]
TempId(n) == [kind |-> "temp", n |-> n]

VARIABLES
    state,      \* the canonical state of useState: agents, connections,
                \* loading, error, connected
    rendered,   \* the lists of the last committed render: the `state` that
                \* the useCallback closures handed to callers have captured
    store,      \* localStorage entries agent_position_<id>
    pending,    \* HTTP round-trips in flight, with what their continuation
                \* has captured
    stream,     \* stream events the server has sent for this client's
                \* requests and that are not delivered yet
    before,     \* the canonical state the reducer was last applied to
    data,       \* the stream message reduced last
    hop,        \* the hook operation that ran last
    hist,       \* what happened so far: the createConnection calls, whether
                \* anything else touched the lists, and the lists before
                \* the last optimistic apply
    hcalls,     \* number of mutation calls made so far
    delivered   \* number of stream events of other origin delivered so far

hookVars == <<state, rendered, store, pending, stream, before, data, hop,
              hist, hcalls, delivered>>

\* useState(...) of part_000 14-20.
InitialState ==
    [agents |-> <<>>, connections |-> <<>>, loading |-> TRUE,
     error |-> NoError, connected |-> FALSE]

\* A position { x, y }, and null for the position getStoredPosition did not
\* find.
NoPosition == [valid |-> FALSE, x |-> 0, y |-> 0]
Position(x, y) == [valid |-> TRUE, x |-> x, y |-> y]

\* The value of a localStorage key, by what JSON.parse makes of its text:
\* "unset" (getItem returns null), "empty" (the empty string), "garbage"
\* (no JSON text), "null", "number" (the JSON text of a number) or "object".
\* x and y are the fields of the object, 0 for a field it lacks; numeric
\* tells that typeof is 'number' for both.
Item(json, numeric, x, y) ==
    [json |-> json, numeric |-> numeric, x |-> x, y |-> y]

NoItem == Item("unset", FALSE, 0, 0)
EmptyStore == [a \in AgentIds |-> NoItem]

\* An ApiAgent, as the server sends it.  hasConfig = FALSE is a payload
\* without the `config` object; prompt, url and error_message may be Absent.
ApiAgent(id, hasConfig, name, model, prompt, status, url, error_message) ==
    [id |-> id, hasConfig |-> hasConfig, name |-> name, model |-> model,
     prompt |-> prompt, status |-> status, url |-> url,
     error_message |-> error_message]

NoAgent == ApiAgent(Absent, FALSE, Absent, Absent, Absent, Absent, Absent,
                    Absent)

\* An ApiConnection, as the server sends it.
ApiConnection(id, from, fromHandle, to, toHandle) ==
    [id |-> id, from_agent |-> from, to_agent |-> to,
     from_handle |-> fromHandle, to_handle |-> toHandle, enabled |-> TRUE]

NoConnection == ApiConnection(NoId, Absent, Absent, Absent, Absent)

\* A message of the stream.  null = TRUE is the message `null`; `missing`
\* names the payload fields the message lacks.
NoEvent ==
    [null |-> FALSE, type |-> Absent, missing |-> {}, agents |-> <<>>,
     connections |-> <<>>, agent |-> NoAgent, agent_id |-> Absent,
     connection |-> NoConnection, connection_id |-> NoId, error |-> Absent]

HookOp(name, how) == [op |-> name, branch |-> how]

\* No optimistic apply to undo.
NoUndo == [n |-> 0, lists |-> [agents |-> <<>>, connections |-> <<>>]]

\* creates: number of createConnection calls made; sequential: each was
\* made with no round-trip in flight, through the callback of an up-to-date
\* render; foreign: something else than a createConnection that succeeds
\* has changed the lists; undo: the round-trip whose optimistic apply was
\* the last change of the lists, and the lists before it; gone: the
\* agents an agent_deleted message has removed, with the number of each
\* deleteConnection request that was in flight then.
NoHistory ==
    [creates |-> 0, sequential |-> TRUE, foreign |-> FALSE, undo |-> NoUndo,
     gone |-> {}]

\* The hook after its first render, before the mount effect runs.
HookInit ==
    /\ state = InitialState
    /\ rendered = [agents |-> <<>>, connections |-> <<>>]
    /\ store = EmptyStore
    /\ pending = {}
    /\ stream = {}
    /\ before = InitialState
    /\ data = NoEvent
    /\ hop = HookOp("init", "none")
    /\ hist = NoHistory
    /\ hcalls = 0
    /\ delivered = 0

\* ---------------------------------------------------------------- helpers
Range(seq) == {seq[i] : i \in 1..Len(seq)}

Min(a, b) == IF a < b THEN a ELSE b

RECURSIVE Pow2(_)
Pow2(n) == IF n = 0 THEN 1 ELSE 2 * Pow2(n - 1)

\* Array.prototype.includes
Includes(seq, c) == c \in Range(seq)

\* if (!this.wsCallbacks.includes(callback)) this.wsCallbacks.push(callback)
PushIfAbsent(seq, c) == IF Includes(seq, c) THEN seq ELSE Append(seq, c)

\* this.wsCallbacks.filter(cb => cb !== callback)
FilterOut(seq, c) == SelectSeq(seq, LAMBDA x : x # c)

\* WebSocket.readyState of this.ws (this.ws?.readyState), "none" for undefined
ReadyState == IF ws = NoSocket THEN "none" ELSE sockets[ws].readyState

\* WebSocket.close(): a CONNECTING or OPEN socket starts closing, a CLOSING or
\* CLOSED socket is left as it is.
CloseState(rs) == IF rs \in {"CONNECTING", "OPEN"} THEN "CLOSING" ELSE rs

SocketIds == 1..MaxLive
TimerIds == 1..MaxTimers

FreeSlot == [readyState |-> "FREE", callback |-> NoCallback,
             deliberate |-> FALSE]

FreeSockets(socks) == {i \in SocketIds : socks[i].readyState = "FREE"}

Lowest(S) == CHOOSE i \in S : \A j \in S : i <= j

FreeTimers == TimerIds \ {t.id : t \in timers}

\* The sockets after `if (this.ws) { this.ws.close(...); this.ws = null }`:
\* a socket that was already CLOSED has dispatched its close event and is
\* garbage once this.ws is cleared; byTeardown records that
\* disconnectWebSocket made the call.
SocketsAfterClose(byTeardown) ==
    IF ws = NoSocket THEN sockets
    ELSE IF sockets[ws].readyState = "CLOSED"
    THEN [sockets EXCEPT ![ws] = FreeSlot]
    ELSE [sockets EXCEPT ![ws] = [@ EXCEPT !.readyState = CloseState(@),
                                          !.deliberate = @ \/ byTeardown]]

\* The backoff without the Math.min cap.
Delay_uncapped(attempts) == BaseDelay * Pow2(attempts)

\* Math.min(3000 * Math.pow(2, this.reconnectAttempts), 30000)
Delay(attempts) == Min(BaseDelay * Pow2(attempts), CapDelay)

\* The observers a bare forEach(cb => cb(event)) calls when the observers of
\* the set raising throw: the loop ends at the first one that throws.
RECURSIVE CalledUntilThrow(_, _)
CalledUntilThrow(seq, raising) ==
    IF seq = <<>> THEN {}
    ELSE IF Head(seq) \in raising THEN {Head(seq)}
    ELSE {Head(seq)} \cup CalledUntilThrow(Tail(seq), raising)

\* ws.onmessage without the try/catch around each observer call.
CalledIsolated_noCatch(seq, raising) == CalledUntilThrow(seq, raising)

\* The observers the forEach of ws.onmessage calls: each call has its own
\* try/catch, so the loop goes through the whole list.
CalledIsolated(seq, raising) == Range(seq)

\* The phase of the stream as section 4.1 of the design names it.
Phase ==
    IF ReadyState = "OPEN" THEN "Open"
    ELSE IF ReadyState = "CONNECTING" THEN "Connecting"
    ELSE IF timers # {} THEN "Reconnecting"
    ELSE IF failed THEN "Failed"
    ELSE "Disconnected"

\* A fan-out: the event, the observers called with it, and the ones among
\* them that threw.
Fanout(event, called, raising) ==
    [type |-> event, to |-> called, raised |-> called \cap raising]

NoFanout == Fanout("none", {}, {})

Op(name, how) == [op |-> name, branch |-> how]

\* ------------------------------------------------------------------ Init
ManagerInit ==
    /\ sockets = [i \in SocketIds |-> FreeSlot]
    /\ ws = NoSocket
    /\ wsCallbacks = <<>>
    /\ reconnectAttempts = 0
    /\ reconnectTimeout = NoTimer
    /\ isReconnecting = FALSE
    /\ connectionCleanup = FALSE
    /\ heartbeatInterval = NoTimer
    /\ timers = {}
    /\ dispatching = NoSocket
    /\ lastFanout = NoFanout
    /\ failed = FALSE
    /\ lastDelay = [open |-> 0, session |-> 0]
    /\ lastOp = Op("init", "none")
    /\ calls = 0

\* The hook variables while no component has mounted the hook.
NotMounted == "not mounted"

HookNotMounted ==
    /\ state = NotMounted
    /\ rendered = NotMounted
    /\ store = NotMounted
    /\ pending = NotMounted
    /\ stream = NotMounted
    /\ before = NotMounted
    /\ data = NotMounted
    /\ hop = NotMounted
    /\ hist = NotMounted
    /\ hcalls = 0
    /\ delivered = 0

\* The program after construction: api.ts 504 builds the manager when the
\* module loads, before any component mounts the hook.
Init == ManagerInit /\ HookNotMounted

(***************************************************************************)
(* The hook useAgentOrchestration (src/unnamed/part_000) and the          *)
(* converters and the position store of the service it calls (api.ts).    *)
(***************************************************************************)

Abs(n) == IF n < 0 THEN -n ELSE n

\* ------------------------------------------------------ position store
\* JSON.parse(text) throws a SyntaxError.
JSONparseThrows(item) == item.json \in {"empty", "garbage"}

\* The check of api.ts 394 and 448 on the parsed value: reading `.x` of
\* null throws a TypeError, which the catch around the check swallows.
isPosition(item) ==
    /\ ~JSONparseThrows(item)
    /\ item.json # "null"
    /\ item.numeric

\* getStoredPosition, api.ts 388-402.
getStoredPosition(st, agentId) ==
    LET stored == st[agentId]
    IN  IF stored.json \in {"unset", "empty"} THEN NoPosition
        ELSE IF isPosition(stored) THEN Position(stored.x, stored.y)
        ELSE NoPosition

\* storeAgentPosition, api.ts 404-410.
storeAgentPosition(st, agentId, x, y) ==
    [st EXCEPT ![agentId] = Item("object", TRUE, x, y)]

\* getAllStoredPositions reading the fields of every stored object, without
\* the typeof check.
getAllStoredPositions_unvalidated(st) ==
    {Position(st[a].x, st[a].y) :
        a \in {b \in DOMAIN st : st[b].json = "object"}}

\* getAllStoredPositions, api.ts 440-458: the keys that are set, parsed
\* (an empty value as ''), and those that pass the check.
getAllStoredPositions(st) ==
    {Position(st[a].x, st[a].y) :
        a \in {b \in DOMAIN st : st[b].json # "unset" /\ isPosition(st[b])}}

\* The grid cell number k, row-major: api.ts 417-420.
Cell(k) ==
    Position((k % GridCells) * GridSize + GridOffset,
             (k \div GridCells) * GridSize + GridOffset)

\* isOccupied with a stored position near on one axis counting as taken.
isOccupied_eitherAxis(st, cell) ==
    \E pos \in getAllStoredPositions(st) :
        \/ Abs(pos.x - cell.x) < OccupiedWithin
        \/ Abs(pos.y - cell.y) < OccupiedWithin

\* isOccupied, api.ts 423-425.
isOccupied(st, cell) ==
    \E pos \in getAllStoredPositions(st) :
        /\ Abs(pos.x - cell.x) < OccupiedWithin
        /\ Abs(pos.y - cell.y) < OccupiedWithin

\* generateDefaultPosition, api.ts 412-438: the first free cell in row-major
\* order.  The random fallback needs a hundred stored positions, more than
\* AgentIds can fill; FallbackPosition stands for it.
FallbackPosition == Position(50, 50)

generateDefaultPosition(st) ==
    LET free == {k \in 0..(GridCells * GridCells - 1) :
                    ~isOccupied(st, Cell(k))}
    IN  IF free = {} THEN FallbackPosition ELSE Cell(Lowest(free))

\* ----------------------------------------------------------- converters
\* apiAgentToUIAgent, api.ts 461-479, for an agent that has a config.
apiAgentToUIAgent(apiAgent, st) ==
    LET storedPosition == getStoredPosition(st, apiAgent.id)
        position == IF storedPosition.valid THEN storedPosition
                    ELSE generateDefaultPosition(st)
    IN  [id |-> apiAgent.id,
         x |-> position.x,
         y |-> position.y,
         width |-> AgentWidth,
         height |-> AgentHeight,
         label |-> apiAgent.name,
         selected |-> FALSE,
         model |-> apiAgent.model,
         prompt |-> IF apiAgent.prompt \in {Absent, ""} THEN ""
                    ELSE apiAgent.prompt,
         status |-> apiAgent.status,
         url |-> apiAgent.url,
         error |-> apiAgent.error_message]

\* apiConnectionToUIConnection, api.ts 481-489.
apiConnectionToUIConnection(apiConnection) ==
    [id |-> apiConnection.id,
     fromAgent |-> apiConnection.from_agent,
     fromHandle |-> apiConnection.from_handle,
     toAgent |-> apiConnection.to_agent,
     toHandle |-> apiConnection.to_handle]

Map(seq, F(_)) == [i \in 1..Len(seq) |-> F(seq[i])]

\* The four-tuple of a relation.
Tuple(fromAgent, toAgent, fromHandle, toHandle) ==
    [fromAgent |-> fromAgent, toAgent |-> toAgent,
     fromHandle |-> fromHandle, toHandle |-> toHandle]

TupleOf(conn) ==
    Tuple(conn.fromAgent, conn.toAgent, conn.fromHandle, conn.toHandle)

\* ---------------------------------------------------------- the reducer
\* The cases of handleWebSocketMessage in which the updater throws and the
\* inner catch returns currentState (part_000 63, 148-153): `data.type` of
\* null, `apiAgent.config.name` of an agent without config (68, 87),
\* `data.agent.id` of a missing agent at the first list element (86), and
\* `apiConnection.id` of a missing connection (110).
updaterThrows(currentState, msg) ==
    \/ msg.null
    \/ /\ msg.type = "initial_state"
       /\ "agents" \notin msg.missing
       /\ \E i \in DOMAIN msg.agents : ~msg.agents[i].hasConfig
    \/ /\ msg.type = "agent_updated"
       /\ currentState.agents # <<>>
       /\ \/ "agent" \in msg.missing
          \/ /\ \E i \in DOMAIN currentState.agents :
                    currentState.agents[i].id = msg.agent.id
             /\ ~msg.agent.hasConfig
    \/ /\ msg.type = "connection_added"
       /\ "connection" \in msg.missing

\* initial_state adding the snapshot to the lists it finds.
onInitialState_merges(currentState, msg, st) ==
    [currentState EXCEPT
        !.agents = @ \o Map(msg.agents, LAMBDA a : apiAgentToUIAgent(a, st)),
        !.connections = @ \o Map(msg.connections,
                                 apiConnectionToUIConnection),
        !.loading = FALSE,
        !.connected = TRUE]

\* case 'initial_state', part_000 66-80.
onInitialState(currentState, msg, st) ==
    [currentState EXCEPT
        !.agents = IF "agents" \in msg.missing THEN <<>>
                   ELSE Map(msg.agents, LAMBDA a : apiAgentToUIAgent(a, st)),
        !.connections = IF "connections" \in msg.missing THEN <<>>
                        ELSE Map(msg.connections,
                                 apiConnectionToUIConnection),
        !.loading = FALSE,
        !.connected = TRUE]

\* agent_updated without line 91: the selection is not carried over.
onAgentUpdated_dropsSelection(currentState, msg, st) ==
    [currentState EXCEPT
        !.agents = Map(currentState.agents,
            LAMBDA agent :
                IF agent.id = msg.agent.id
                THEN [apiAgentToUIAgent(msg.agent, st) EXCEPT
                         !.x = agent.x,
                         !.y = agent.y]
                ELSE agent)]

\* agent_updated putting an agent the list does not hold at its end.
onAgentUpdated_upserts(currentState, msg, st) ==
    IF \E i \in DOMAIN currentState.agents :
          currentState.agents[i].id = msg.agent.id
    THEN [currentState EXCEPT
             !.agents = Map(currentState.agents,
                 LAMBDA agent :
                     IF agent.id = msg.agent.id
                     THEN [apiAgentToUIAgent(msg.agent, st) EXCEPT
                              !.x = agent.x,
                              !.y = agent.y,
                              !.selected = agent.selected]
                     ELSE agent)]
    ELSE [currentState EXCEPT
             !.agents = Append(@, apiAgentToUIAgent(msg.agent, st))]

\* case 'agent_updated', part_000 82-96.
onAgentUpdated(currentState, msg, st) ==
    [currentState EXCEPT
        !.agents = Map(currentState.agents,
            LAMBDA agent :
                IF agent.id = msg.agent.id
                THEN [apiAgentToUIAgent(msg.agent, st) EXCEPT
                         !.x = agent.x,
                         !.y = agent.y,
                         !.selected = agent.selected]
                ELSE agent)]

\* agent_deleted cascading to the relations that start at the agent only.
onAgentDeleted_sourceOnly(currentState, msg) ==
    [currentState EXCEPT
        !.agents = SelectSeq(currentState.agents,
                       LAMBDA agent : agent.id # msg.agent_id),
        !.connections = SelectSeq(currentState.connections,
                       LAMBDA conn : conn.fromAgent # msg.agent_id)]

\* case 'agent_deleted', part_000 98-105.
onAgentDeleted(currentState, msg) ==
    [currentState EXCEPT
        !.agents = SelectSeq(currentState.agents,
                       LAMBDA agent : agent.id # msg.agent_id),
        !.connections = SelectSeq(currentState.connections,
                       LAMBDA conn : /\ conn.fromAgent # msg.agent_id
                                     /\ conn.toAgent # msg.agent_id)]

\* connection_added taking the place of the relations with its four-tuple.
onConnectionAdded_replaces(currentState, msg) ==
    [currentState EXCEPT
        !.connections = Append(
            SelectSeq(currentState.connections,
                LAMBDA conn : \/ conn.fromAgent # msg.connection.from_agent
                              \/ conn.toAgent # msg.connection.to_agent
                              \/ conn.fromHandle # msg.connection.from_handle
                              \/ conn.toHandle # msg.connection.to_handle),
            apiConnectionToUIConnection(msg.connection))]

\* case 'connection_added', part_000 107-111.
onConnectionAdded(currentState, msg) ==
    [currentState EXCEPT
        !.connections = Append(currentState.connections,
                            apiConnectionToUIConnection(msg.connection))]

\* case 'connection_removed', part_000 113-117.
onConnectionRemoved(currentState, msg) ==
    [currentState EXCEPT
        !.connections = SelectSeq(currentState.connections,
                            LAMBDA conn : conn.id # msg.connection_id)]

\* The switch with a connection_established case that keeps the error.
updaterReturns_keepsError(currentState, msg, st) ==
    CASE msg.type = "initial_state" -> onInitialState(currentState, msg, st)
      [] msg.type = "agent_updated" -> onAgentUpdated(currentState, msg, st)
      [] msg.type = "agent_deleted" -> onAgentDeleted(currentState, msg)
      [] msg.type = "connection_added" ->
            onConnectionAdded(currentState, msg)
      [] msg.type = "connection_removed" ->
            onConnectionRemoved(currentState, msg)
      [] msg.type = "connection_failed" ->
            [currentState EXCEPT
                !.connected = FALSE,
                !.error = "Connection to orchestration layer failed"]
      [] msg.type = "connection_error" ->
            [currentState EXCEPT
                !.connected = FALSE,
                !.error = IF msg.error \in {Absent, ""}
                          THEN "WebSocket error: Connection failed"
                          ELSE "WebSocket error: " \o msg.error]
      [] msg.type = "connection_established" ->
            [currentState EXCEPT !.connected = TRUE]
      [] OTHER -> currentState

\* The switch of handleWebSocketMessage, part_000 65-147.
updaterReturns(currentState, msg, st) ==
    CASE msg.type = "initial_state" -> onInitialState(currentState, msg, st)
      [] msg.type = "agent_updated" -> onAgentUpdated(currentState, msg, st)
      [] msg.type = "agent_deleted" -> onAgentDeleted(currentState, msg)
      [] msg.type = "connection_added" ->
            onConnectionAdded(currentState, msg)
      [] msg.type = "connection_removed" ->
            onConnectionRemoved(currentState, msg)
      [] msg.type = "connection_failed" ->
            [currentState EXCEPT
                !.connected = FALSE,
                !.error = "Connection to orchestration layer failed"]
      [] msg.type = "connection_error" ->
            [currentState EXCEPT
                !.connected = FALSE,
                !.error = IF msg.error \in {Absent, ""}
                          THEN "WebSocket error: Connection failed"
                          ELSE "WebSocket error: " \o msg.error]
      [] msg.type = "connection_established" ->
            [currentState EXCEPT !.connected = TRUE, !.error = NoError]
      [] OTHER -> currentState

\* handleWebSocketMessage, part_000 57-157: the next canonical state.
handleWebSocketMessage(currentState, msg, st) ==
    IF updaterThrows(currentState, msg) THEN currentState
    ELSE updaterReturns(currentState, msg, st)

\* ------------------------------------------------------------ the inputs
Agent1 == ApiAgent("a1", TRUE, "one", "m1", Absent, "running", "u1", Absent)
Agent1b == ApiAgent("a1", TRUE, "uno", "m2", "p2", "error", Absent, "e2")
Agent2 == ApiAgent("a2", TRUE, "two", "m1", "p1", "stopped", "u2", Absent)
Agent3 == ApiAgent("a3", TRUE, "three", "m2", Absent, "running", "u3", Absent)
AgentNoConfig == [Agent1 EXCEPT !.hasConfig = FALSE]

\* Two server relations with one four-tuple, one that differs from them in
\* a handle only, and one between other agents.
Relation1 == ApiConnection(SrvId(1), "a1", "right", "a2", "left")
Relation2 == ApiConnection(SrvId(2), "a1", "right", "a2", "left")
Relation3 == ApiConnection(SrvId(3), "a1", "bottom", "a2", "left")
Relation4 == ApiConnection(SrvId(4), "a2", "right", "a3", "left")

Message(type) == [NoEvent EXCEPT !.type = type]

InitialStateMsg(agents, connections) ==
    [Message("initial_state") EXCEPT !.agents = agents,
                                     !.connections = connections]
AgentUpdatedMsg(agent) == [Message("agent_updated") EXCEPT !.agent = agent]
AgentDeletedMsg(id) == [Message("agent_deleted") EXCEPT !.agent_id = id]
ConnectionAddedMsg(connection) ==
    [Message("connection_added") EXCEPT !.connection = connection]
ConnectionRemovedMsg(id) ==
    [Message("connection_removed") EXCEPT !.connection_id = id]
Lacking(msg, fields) == [msg EXCEPT !.missing = fields]

WellFormed ==
    {InitialStateMsg(<<>>, <<>>),
     InitialStateMsg(<<Agent1, Agent2>>, <<Relation1>>),
     InitialStateMsg(<<Agent2>>, <<Relation3, Relation4>>),
     AgentUpdatedMsg(Agent1), AgentUpdatedMsg(Agent1b),
     AgentUpdatedMsg(Agent2), AgentUpdatedMsg(Agent3),
     AgentDeletedMsg("a1"), AgentDeletedMsg("a2"), AgentDeletedMsg("a3"),
     ConnectionAddedMsg(Relation1), ConnectionAddedMsg(Relation2),
     ConnectionAddedMsg(Relation3), ConnectionAddedMsg(Relation4),
     ConnectionRemovedMsg(SrvId(1)), ConnectionRemovedMsg(SrvId(4)),
     ConnectionRemovedMsg(TempId(1)),
     Message("connection_failed"), Message("connection_error"),
     [Message("connection_error") EXCEPT !.error = "refused"],
     Message("connection_established")}

\* Messages without a type, of a type the switch does not know, or without
\* a payload field their case reads.
Malformed ==
    {[NoEvent EXCEPT !.null = TRUE],
     Message(Absent), Message("agent_created"),
     Lacking(Message("initial_state"), {"agents", "connections"}),
     Lacking(InitialStateMsg(<<>>, <<Relation1>>), {"agents"}),
     Lacking(InitialStateMsg(<<Agent1>>, <<>>), {"connections"}),
     InitialStateMsg(<<Agent2, AgentNoConfig>>, <<Relation1>>),
     Lacking(Message("agent_updated"), {"agent"}),
     AgentUpdatedMsg(AgentNoConfig),
     Lacking(Message("agent_deleted"), {"agent_id"}),
     Lacking(Message("connection_added"), {"connection"}),
     Lacking(Message("connection_removed"), {"connection_id"})}

Messages == WellFormed \cup Malformed

\* ------------------------------------------------- steps of the reducer
\* A stream message reaches handleWebSocketMessage.
Reduce(msg) ==
    /\ state' = handleWebSocketMessage(state, msg, store)
    /\ hop' = HookOp("message", IF updaterThrows(state, msg) THEN "caught"
                                ELSE "returned")
    /\ UNCHANGED <<rendered, store, hcalls>>
    /\ UNCHANGED vars

\* ----------------------------------------------------- manager operations
\* connectWebSocket without `this.ws.close()` before the new WebSocket.
connectWebSocket_noClose(callback) ==
    IF ReadyState = "OPEN" \/ isReconnecting
    THEN /\ wsCallbacks' = PushIfAbsent(wsCallbacks, callback)
         /\ UNCHANGED <<sockets, ws, isReconnecting>>
    ELSE /\ FreeSockets(sockets) # {}
         /\ sockets' = [sockets EXCEPT ![Lowest(FreeSockets(sockets))] =
                           [readyState |-> "CONNECTING",
                            callback |-> callback,
                            deliberate |-> FALSE]]
         /\ ws' = Lowest(FreeSockets(sockets))
         /\ isReconnecting' = TRUE
         /\ wsCallbacks' = PushIfAbsent(wsCallbacks, callback)

\* connectWebSocket(callback), api.ts 60-94, as called by a client and by the
\* reconnect timer: the fields it assigns.  The four handlers it installs on
\* the new socket are the actions onopen, onmessage, onclose and onerror.
connectWebSocket(callback) ==
    IF ReadyState = "OPEN" \/ isReconnecting
    THEN /\ wsCallbacks' = PushIfAbsent(wsCallbacks, callback)
         /\ UNCHANGED <<sockets, ws, isReconnecting>>
    ELSE LET closed == SocketsAfterClose(FALSE) IN
         /\ FreeSockets(closed) # {}
         /\ sockets' = [closed EXCEPT ![Lowest(FreeSockets(closed))] =
                           [readyState |-> "CONNECTING",
                            callback |-> callback,
                            deliberate |-> FALSE]]
         /\ ws' = Lowest(FreeSockets(closed))
         /\ isReconnecting' = TRUE
         /\ wsCallbacks' = PushIfAbsent(wsCallbacks, callback)

\* disconnectWebSocket(), api.ts 168-185.  connectionCleanup is set on entry
\* and cleared again before the method returns; ws.close() dispatches its
\* close event in a later task, so no handler ever runs while it is set.
disconnectWebSocket ==
    /\ timers' = IF reconnectTimeout # NoTimer
                 THEN {t \in timers : t.id # reconnectTimeout}
                 ELSE timers
    /\ reconnectTimeout' = NoTimer
    /\ sockets' = SocketsAfterClose(TRUE)
    /\ ws' = NoSocket
    /\ wsCallbacks' = <<>>
    /\ reconnectAttempts' = 0
    /\ isReconnecting' = FALSE
    /\ connectionCleanup' = FALSE

\* removeWebSocketCallback(callback), api.ts 188-198.
removeWebSocketCallback(callback) ==
    IF FilterOut(wsCallbacks, callback) = <<>>
    THEN disconnectWebSocket
    ELSE /\ wsCallbacks' = FilterOut(wsCallbacks, callback)
         /\ UNCHANGED <<sockets, ws, reconnectAttempts, reconnectTimeout,
                        isReconnecting, connectionCleanup, timers>>

\* The new socket of a step, NoSocket when the step constructed none.
Created == ws' # NoSocket /\ sockets'[ws'].readyState = "CONNECTING"
           /\ (ws' # ws \/ sockets[ws].readyState # "CONNECTING")

\* ------------------------------------------- the hook as an observer
\* handleWebSocketMessage, the callback the mount effect of the hook hands
\* to connectWebSocket (part_000 165); it catches what it raises.
HookCallback == "cb1"

\* The stream of a mounted hook whose messages are the fan-outs of the
\* manager themselves.
Linked == "linked"

\* The data of a parseable message when the hook observes the stream: the
\* snapshot of a server that has no agent and no relation.
StreamData == InitialStateMsg(<<>>, <<>>)

\* The canonical state after a fan-out of msg to the observers called: the
\* reducer runs when the hook is mounted and its callback is among them.
Observe(called, msg) ==
    IF stream = NotMounted \/ HookCallback \notin called THEN state
    ELSE handleWebSocketMessage(state, msg, store)

\* The history of the observers while the hook is mounted: dropped, the
\* observers removeWebSocketCallback removed while others remained and no
\* client has handed to connectWebSocket since; revived, the socket a
\* client call of connectWebSocket constructed in phase Failed, until it
\* opens or is discarded.
NoLinkHistory == [dropped |-> {}, revived |-> NoSocket]

\* The history after the step of a handler or method; c is the callback a
\* client handed to it.
LinkAfter(c) ==
    IF stream = NotMounted THEN hist
    ELSE [dropped |->
              IF lastOp'.op = "connect" THEN hist.dropped \ {c}
              ELSE IF lastOp' = Op("remove", "kept")
              THEN hist.dropped \cup {c}
              ELSE hist.dropped,
          revived |->
              IF Created
              THEN IF lastOp'.op = "connect" /\ Phase = "Failed"
                   THEN ws' ELSE NoSocket
              ELSE IF hist.revived # NoSocket
                      /\ sockets'[hist.revived].readyState
                             \in {"OPEN", "FREE"}
              THEN NoSocket
              ELSE hist.revived]

\* --------------------------------------------------------------- actions
\* A client calls connectWebSocket(c).
ConnectCall(c) ==
    /\ dispatching = NoSocket
    /\ calls < MaxCalls
    /\ calls' = calls + 1
    /\ connectWebSocket(c)
    /\ failed' = FALSE
    /\ lastFanout' = NoFanout
    /\ lastOp' = Op("connect", IF Created THEN "new" ELSE "attach")
    /\ UNCHANGED <<reconnectAttempts, reconnectTimeout, connectionCleanup,
                   heartbeatInterval, timers, dispatching, lastDelay>>
    /\ hist' = LinkAfter(c)
    /\ UNCHANGED <<state, rendered, store, pending, stream, before, data, hop,
                   hcalls, delivered>>

\* A client calls removeWebSocketCallback(c).
RemoveCall(c) ==
    /\ dispatching = NoSocket
    /\ calls < MaxCalls
    /\ calls' = calls + 1
    /\ removeWebSocketCallback(c)
    /\ failed' = (failed /\ wsCallbacks' # <<>>)
    /\ lastDelay' = IF wsCallbacks' = <<>>
                    THEN [lastDelay EXCEPT !.session = 0] ELSE lastDelay
    /\ lastFanout' = NoFanout
    /\ lastOp' = Op("remove", IF wsCallbacks' = <<>> THEN "teardown"
                              ELSE "kept")
    /\ UNCHANGED <<heartbeatInterval, dispatching>>
    /\ hist' = LinkAfter(c)
    /\ UNCHANGED <<state, rendered, store, pending, stream, before, data, hop,
                   hcalls, delivered>>

\* A client calls disconnectWebSocket().
DisconnectCall ==
    /\ dispatching = NoSocket
    /\ calls < MaxCalls
    /\ calls' = calls + 1
    /\ disconnectWebSocket
    /\ failed' = FALSE
    /\ lastDelay' = [lastDelay EXCEPT !.session = 0]
    /\ lastFanout' = NoFanout
    /\ lastOp' = Op("disconnect", "teardown")
    /\ UNCHANGED <<heartbeatInterval, dispatching>>
    /\ hist' = LinkAfter(NoCallback)
    /\ UNCHANGED <<state, rendered, store, pending, stream, before, data, hop,
                   hcalls, delivered>>

\* ws.onopen, api.ts 96-109: the browser opens socket s.  The handler resets
\* the counter and the flag and then calls this.startHeartbeat(), a method
\* the class does not define: the call throws a TypeError, which ends the
\* handler before the connection_established fan-out and leaves
\* heartbeatInterval null.
onopen(s) ==
    /\ dispatching = NoSocket
    /\ UNCHANGED calls
    /\ sockets[s].readyState = "CONNECTING"
    /\ sockets' = [sockets EXCEPT ![s].readyState = "OPEN"]
    /\ reconnectAttempts' = 0
    /\ isReconnecting' = FALSE
    /\ lastFanout' = NoFanout
    /\ failed' = FALSE
    /\ lastDelay' = [open |-> 0, session |-> 0]
    /\ lastOp' = Op("open", "threw")
    /\ UNCHANGED <<ws, wsCallbacks, reconnectTimeout, connectionCleanup,
                   heartbeatInterval, timers, dispatching>>
    /\ hist' = LinkAfter(NoCallback)
    /\ UNCHANGED <<state, rendered, store, pending, stream, before, data, hop,
                   hcalls, delivered>>

\* ws.onmessage, api.ts 111-130: a message arrives on the open socket s; its
\* payload parses as JSON or not, and the observers of raising throw.
onmessage(s, parseable, raising) ==
    /\ dispatching = NoSocket
    /\ UNCHANGED calls
    /\ stream = NotMounted \/ HookCallback \notin raising
    /\ sockets[s].readyState = "OPEN"
    /\ lastFanout' = IF parseable
                     THEN Fanout("message",
                                 CalledIsolated(wsCallbacks, raising),
                                 raising)
                     ELSE NoFanout
    /\ lastOp' = Op("message", IF parseable THEN "parsed" ELSE "unparseable")
    /\ UNCHANGED <<sockets, ws, wsCallbacks, reconnectAttempts,
                   reconnectTimeout, isReconnecting, connectionCleanup,
                   heartbeatInterval, timers, dispatching, failed, lastDelay>>
    /\ state' = IF parseable
                THEN Observe(CalledIsolated(wsCallbacks, raising), StreamData)
                ELSE state
    /\ UNCHANGED <<rendered, store, pending, stream, before, data, hop, hist,
                   hcalls, delivered>>

\* The server starts the closing handshake of the open socket s: the browser
\* sets readyState to CLOSING and runs no handler.
ServerClosing(s) ==
    /\ dispatching = NoSocket
    /\ UNCHANGED calls
    /\ sockets[s].readyState = "OPEN"
    /\ sockets' = [sockets EXCEPT ![s].readyState = "CLOSING"]
    /\ lastFanout' = NoFanout
    /\ lastOp' = Op("closing", "none")
    /\ UNCHANGED <<ws, wsCallbacks, reconnectAttempts, reconnectTimeout,
                   isReconnecting, connectionCleanup, heartbeatInterval,
                   timers, dispatching, failed, lastDelay>>
    /\ UNCHANGED hookVars

\* ws.onerror that also schedules the reconnect, as ws.onclose does.
onerror_reconnects(s) ==
    /\ dispatching = NoSocket
    /\ UNCHANGED calls
    /\ sockets[s].readyState \in {"CONNECTING", "OPEN", "CLOSING"}
    /\ sockets' = [sockets EXCEPT ![s].readyState = "CLOSED"]
    /\ isReconnecting' = FALSE
    /\ dispatching' = s
    /\ lastFanout' = NoFanout
    /\ lastOp' = Op("error", "none")
    /\ IF Len(wsCallbacks) # 0 /\ reconnectAttempts < maxReconnectAttempts
          /\ FreeTimers # {}
       THEN /\ timers' = timers \cup {[id |-> Lowest(FreeTimers),
                                       callback |-> sockets[s].callback,
                                       delay |-> Delay(reconnectAttempts)]}
            /\ reconnectTimeout' = Lowest(FreeTimers)
       ELSE UNCHANGED <<timers, reconnectTimeout>>
    /\ UNCHANGED <<ws, wsCallbacks, reconnectAttempts, connectionCleanup,
                   heartbeatInterval, failed, lastDelay>>
    /\ UNCHANGED hookVars

\* ws.onerror, api.ts 154-165: the connection of socket s fails.  The browser
\* sets readyState to CLOSED, fires error and then, in the same task, close.
onerror(s) ==
    /\ dispatching = NoSocket
    /\ UNCHANGED calls
    /\ sockets[s].readyState \in {"CONNECTING", "OPEN", "CLOSING"}
    /\ sockets' = [sockets EXCEPT ![s].readyState = "CLOSED"]
    /\ isReconnecting' = FALSE
    /\ dispatching' = s
    /\ lastFanout' = NoFanout
    /\ lastOp' = Op("error", "none")
    /\ UNCHANGED <<ws, wsCallbacks, reconnectAttempts, reconnectTimeout,
                   connectionCleanup, heartbeatInterval, timers, failed,
                   lastDelay>>
    /\ UNCHANGED hookVars

\* The sockets after the close event of socket s: s is CLOSED, and garbage
\* unless this.ws still references it.
SocketsAfterCloseEvent(s) ==
    IF s = ws THEN [sockets EXCEPT ![s].readyState = "CLOSED"]
    ELSE [sockets EXCEPT ![s] = FreeSlot]

\* ws.onclose, api.ts 132-152: the close event of socket s, after its error
\* event or as a clean close of an open or closing socket.  The observers of
\* raising throw when they are handed connection_failed.
onclose(s, raising) ==
    /\ \/ dispatching = s
       \/ dispatching = NoSocket /\ sockets[s].readyState \in {"OPEN", "CLOSING"}
    /\ sockets' = SocketsAfterCloseEvent(s)
    /\ UNCHANGED calls
    /\ stream = NotMounted \/ HookCallback \notin raising
    /\ dispatching' = NoSocket
    /\ isReconnecting' = FALSE
    /\ IF connectionCleanup \/ Len(wsCallbacks) = 0
       THEN /\ lastFanout' = NoFanout
            /\ lastOp' = Op("close", "cleanup")
            /\ UNCHANGED <<timers, reconnectTimeout, failed, lastDelay>>
       ELSE IF reconnectAttempts < maxReconnectAttempts
       THEN /\ FreeTimers # {}
            /\ timers' = timers \cup {[id |-> Lowest(FreeTimers),
                                       callback |-> sockets[s].callback,
                                       delay |-> Delay(reconnectAttempts)]}
            /\ reconnectTimeout' = Lowest(FreeTimers)
            /\ lastFanout' = NoFanout
            /\ lastDelay' = [open |-> Delay(reconnectAttempts),
                             session |-> Delay(reconnectAttempts)]
            /\ lastOp' = Op("close", "retry")
            /\ UNCHANGED failed
       ELSE /\ lastFanout' = Fanout("connection_failed",
                                   CalledUntilThrow(wsCallbacks, raising),
                                   raising)
            /\ failed' = TRUE
            /\ lastOp' = Op("close", "failed")
            /\ UNCHANGED <<timers, reconnectTimeout, lastDelay>>
    /\ UNCHANGED <<ws, wsCallbacks, reconnectAttempts, connectionCleanup,
                   heartbeatInterval>>
    /\ state' = IF lastOp'.branch = "failed"
                THEN Observe(CalledUntilThrow(wsCallbacks, raising),
                             Message("connection_failed"))
                ELSE state
    /\ hist' = LinkAfter(NoCallback)
    /\ UNCHANGED <<rendered, store, pending, stream, before, data, hop,
                   hcalls, delivered>>

\* The setTimeout closure of ws.onclose, api.ts 144-147: timer t fires.
TimerFire(t) ==
    /\ dispatching = NoSocket
    /\ UNCHANGED calls
    /\ timers' = timers \ {t}
    /\ reconnectAttempts' = reconnectAttempts + 1
    /\ connectWebSocket(t.callback)
    /\ lastFanout' = NoFanout
    /\ lastOp' = Op("timer", IF Created THEN "new" ELSE "attach")
    /\ UNCHANGED <<reconnectTimeout, connectionCleanup, heartbeatInterval,
                   dispatching, failed, lastDelay>>
    /\ hist' = LinkAfter(NoCallback)
    /\ UNCHANGED <<state, rendered, store, pending, stream, before, data, hop,
                   hcalls, delivered>>

Next ==
    \/ \E c \in Callbacks : ConnectCall(c)
    \/ \E c \in Callbacks : RemoveCall(c)
    \/ DisconnectCall
    \/ \E s \in SocketIds : onopen(s)
    \/ \E s \in SocketIds, p \in BOOLEAN, r \in SUBSET Callbacks :
          onmessage(s, p, r)
    \/ \E s \in SocketIds : ServerClosing(s)
    \/ \E s \in SocketIds : onerror(s)
    \/ \E s \in SocketIds, r \in SUBSET Callbacks : onclose(s, r)
    \/ \E t \in timers : TimerFire(t)

Spec == Init /\ [][Next]_vars

TypeOK ==
    /\ ws \in {NoSocket} \cup SocketIds
    /\ Range(wsCallbacks) \subseteq Callbacks
    /\ reconnectAttempts \in Nat
    /\ isReconnecting \in BOOLEAN
    /\ connectionCleanup = FALSE
    /\ heartbeatInterval = NoTimer

\* ------------------------------------------------------ steps, by handler
\* Every handler records its name in lastOp, so the first conjunct of each
\* definition follows from the second; it spares the enumeration on the
\* steps of the other handlers.
StepConnect == lastOp'.op = "connect" /\ \E c \in Callbacks : ConnectCall(c)
StepRemove == lastOp'.op = "remove" /\ \E c \in Callbacks : RemoveCall(c)
StepOpen == lastOp'.op = "open" /\ \E x \in SocketIds : onopen(x)
StepError == lastOp'.op = "error" /\ \E x \in SocketIds : onerror(x)
StepClose ==
    /\ lastOp'.op = "close"
    /\ \E x \in SocketIds, r \in SUBSET Callbacks : onclose(x, r)
StepTimer == lastOp'.op = "timer" /\ \E t \in timers : TimerFire(t)

\* The sockets that are connecting or open.
ActiveSockets ==
    {x \in SocketIds : sockets[x].readyState \in {"CONNECTING", "OPEN"}}

\* The timers a step scheduled.
Scheduled == timers' \ timers

\* ------------------------------------------------------------------- C1
\* C1: in every reachable state at most one socket is CONNECTING or OPEN.
C1_AtMostOneActiveSocket == Cardinality(ActiveSockets) <= 1

\* A new socket is connecting while an older one is still closing.
C1_Witness ==
    /\ ReadyState = "CONNECTING"
    /\ \E x \in SocketIds : x # ws /\ sockets[x].readyState = "CLOSING"

\* ------------------------------------------------------------------- C2
\* C2: a connect call made while the stream is Open, Connecting or
\* Reconnecting creates no socket and closes none; it only adds the callback,
\* once.
C2_ConnectIdempotent ==
    [][(StepConnect /\ Phase \in {"Open", "Connecting", "Reconnecting"})
         => /\ sockets' = sockets
            /\ ws' = ws
            /\ \E c \in Callbacks : wsCallbacks' = PushIfAbsent(wsCallbacks, c)
      ]_vars

\* ------------------------------------------------------------------- C3
\* C3: the close event of a socket that deliberate teardown closed schedules
\* no reconnect timer and opens no socket.
C3_TeardownCloseSuppressed ==
    [][\A x \in SocketIds :
         (sockets[x].deliberate /\ \E r \in SUBSET Callbacks : onclose(x, r))
            => /\ timers' = timers
               /\ reconnectTimeout' = reconnectTimeout
               /\ ~Created
      ]_vars

\* ------------------------------------------------------------------- C4
\* C4: the teardown that follows the removal of the last observer cancels
\* every pending reconnect timer and the heartbeat timer, so none of them
\* fires afterwards.
C4_TeardownCancelsTimers ==
    [][(StepRemove /\ wsCallbacks' = <<>>)
         => /\ timers' = {}
            /\ heartbeatInterval' = NoTimer
      ]_vars

\* ------------------------------------------------------------------- C5
\* C5: an unexpected close with observers registered and the 5 retries used
\* delivers connection_failed to the observers and schedules no timer, and
\* from then on no socket is opened until a client calls connect again.
C5_FailedIsTerminal ==
    [][/\ \A x \in SocketIds :
            (/\ onclose(x, {})
             /\ wsCallbacks # <<>>
             /\ reconnectAttempts >= maxReconnectAttempts)
               => /\ lastFanout'.type = "connection_failed"
                  /\ lastFanout'.to = Range(wsCallbacks)
                  /\ Scheduled = {}
       /\ (failed /\ ~StepConnect) => ~Created
      ]_vars

\* ------------------------------------------------------------------- C6
\* The delays the claim lists, by attempt counter 0..4.
DelayTable == <<3000, 6000, 12000, 24000, 30000>>

\* What C6 says of one step, given the delay of the previous reconnect that
\* the new delay may not fall below.
C6_Step(previous) ==
    /\ StepClose =>
         \A t \in Scheduled :
            /\ reconnectAttempts \in 0..4
            /\ t.delay = DelayTable[reconnectAttempts + 1]
            /\ t.delay <= 30000
            /\ t.delay >= previous
    /\ StepTimer => reconnectAttempts' = reconnectAttempts + 1

\* C6 as stated: delay = min(3000 * 2^attempt, 30000), the counter grows by
\* one per retry, and the delays scheduled between two successful opens are
\* non-decreasing and at most 30000.
C6_BackoffBetweenOpens == [][C6_Step(lastDelay.open)]_vars

\* C6 as amended: the same, with the delays non-decreasing between two resets
\* of the counter, which a successful open and a deliberate teardown both are.
C6_BackoffBetweenResets == [][C6_Step(lastDelay.session)]_vars

\* The fifth reconnect of a session was scheduled, at the cap.
C6_Witness ==
    /\ lastOp = Op("close", "retry")
    /\ reconnectAttempts = 4
    /\ lastDelay.session = CapDelay
    /\ \E t \in timers : t.id = reconnectTimeout /\ t.delay = CapDelay

\* ------------------------------------------------------------------- C7
\* C7: every successful open resets the attempt counter to 0, clears the
\* in-progress flag and delivers connection_established to every observer
\* registered at that moment.
C7_OpenNotifiesObservers ==
    [][StepOpen
         => /\ reconnectAttempts' = 0
            /\ isReconnecting' = FALSE
            /\ lastFanout'.type = "connection_established"
            /\ lastFanout'.to = Range(wsCallbacks)
      ]_vars

\* ------------------------------------------------------------------- C8
\* C8: an error event schedules no reconnect timer and opens no socket; only
\* a close event schedules one, and one close event schedules at most one.
C8_OnlyCloseSchedules ==
    [][/\ StepError => (Scheduled = {} /\ ~Created /\ ws' = ws)
       /\ Scheduled # {} => StepClose
       /\ Cardinality(Scheduled) <= 1
      ]_vars

\* The error event of a failed socket has run with observers registered and
\* retries left, and no reconnect is scheduled before its close event.
C8_Witness ==
    /\ lastOp.op = "error"
    /\ dispatching # NoSocket
    /\ wsCallbacks # <<>>
    /\ reconnectAttempts < maxReconnectAttempts
    /\ timers = {}

\* ------------------------------------------------------------------- C9
\* C9: a parseable message is delivered to every registered observer even if
\* some of them raise, an unparseable one to none, and either way the socket
\* stays open with the same observers, so later messages are delivered too.
C9_MessageFaultIsolation ==
    [][lastOp'.op = "message" =>
         \A x \in SocketIds, p \in BOOLEAN, r \in SUBSET Callbacks :
            onmessage(x, p, r)
               => /\ p => /\ lastFanout'.type = "message"
                          /\ lastFanout'.to = Range(wsCallbacks)
                  /\ ~p => lastFanout' = NoFanout
                  /\ sockets'[x].readyState = "OPEN"
                  /\ ws' = ws
                  /\ wsCallbacks' = wsCallbacks
                  /\ dispatching' = NoSocket
      ]_vars

\* A message reached both observers although the first one raised.
C9_Witness ==
    /\ lastOp = Op("message", "parsed")
    /\ Len(wsCallbacks) = 2
    /\ lastFanout.raised = {wsCallbacks[1]}
    /\ lastFanout.to = Callbacks
    /\ ReadyState = "OPEN"

\* ------------------------------------------------------------------ C10
\* C10: removeCallback(cb) removes cb; when no observer is left it tears
\* down (no reconnect timer pending, socket closed, counter 0, no observers),
\* otherwise it leaves the socket, the counter, the pending timer and the
\* other observers as they were.
C10_RemoveCallbackEffect ==
    [][\A c \in Callbacks :
         RemoveCall(c)
            => /\ ~Includes(wsCallbacks', c)
               /\ IF FilterOut(wsCallbacks, c) = <<>>
                  THEN /\ timers' = {}
                       /\ ws' = NoSocket
                       /\ ActiveSockets' = {}
                       /\ reconnectAttempts' = 0
                       /\ wsCallbacks' = <<>>
                  ELSE /\ wsCallbacks' = FilterOut(wsCallbacks, c)
                       /\ UNCHANGED <<sockets, ws, reconnectAttempts, timers,
                                      reconnectTimeout, isReconnecting>>
      ]_vars

\* --------------------------------------------- the optimistic coordinator
\* A round-trip in flight: its serial number, what it asks for, the record
\* its continuation has captured (the placeholder of createConnection, the
\* connectionToDelete of deleteConnection) and whether the server's
\* broadcast of it has reached this client already.
NoUIConnection == apiConnectionToUIConnection(NoConnection)

Lists(s) == [agents |-> s.agents, connections |-> s.connections]

Request(n, kind, id, conn) ==
    [n |-> n, kind |-> kind, id |-> id, conn |-> conn, status |-> "sent"]

\* The history after a step from canonical state s1 to s2 that is not an
\* optimistic apply.
After(h, s1, s2) ==
    IF Lists(s1) = Lists(s2) THEN h ELSE [h EXCEPT !.undo = NoUndo]

\* The id of the relation the server creates for request number n.
CreatedId(n) == SrvId(10 + n)

\* What the server broadcasts on the stream when it has acted on request p:
\* connection_added for a create, connection_removed for a delete.
Broadcast(p) ==
    IF p.kind = "create"
    THEN ConnectionAddedMsg(
             ApiConnection(CreatedId(p.n), p.conn.fromAgent,
                           p.conn.fromHandle, p.conn.toAgent,
                           p.conn.toHandle))
    ELSE ConnectionRemovedMsg(p.id)

\* The stream after the response that tells the server has acted on p: the
\* broadcast is still to come if the client has not seen it before.
StreamAfter(p) ==
    IF p.status = "sent" THEN stream \cup {Broadcast(p)} ELSE stream

HasTuple(connections, t) ==
    \E i \in DOMAIN connections : TupleOf(connections[i]) = t

WithoutId(connections, id) ==
    SelectSeq(connections, LAMBDA conn : conn.id # id)

\* The tuples createConnection is called with, and what the requests of
\* loadData may fetch.
CreateTuples == {TupleOf(apiConnectionToUIConnection(Relation1))}

Fetched ==
    {[agents |-> <<>>, connections |-> <<Relation1>>],
     [agents |-> <<Agent1>>, connections |-> <<>>]}

\* The stream messages of other origin than this client's requests: a
\* snapshot after a (re)connect and the changes other clients make.
ForeignMessages ==
    {InitialStateMsg(<<Agent1, Agent2>>, <<Relation3>>),
     AgentDeletedMsg("a1"),
     ConnectionRemovedMsg(SrvId(3))}

\* createConnection, part_000 265-303: a caller holding the callback of the
\* last committed render calls it.  The pre-check reads `state.connections`
\* of that render (deps at 320); the append is a functional update of the
\* canonical state.
createConnection(t) ==
    /\ hcalls + delivered < MaxInputs
    /\ hcalls' = hcalls + 1
    /\ LET tempConnectionId == TempId(hcalls + 1)
           optimisticConnection ==
               [id |-> tempConnectionId, fromAgent |-> t.fromAgent,
                fromHandle |-> t.fromHandle, toAgent |-> t.toAgent,
                toHandle |-> t.toHandle]
           made == [hist EXCEPT
                       !.creates = @ + 1,
                       !.sequential = @ /\ pending = {}
                                        /\ rendered = Lists(state)]
       IN  IF HasTuple(rendered.connections, t)
           THEN /\ state' = state
                /\ pending' = pending
                /\ hist' = made
                /\ hop' = HookOp("createConnection", "exists")
           ELSE /\ state' = [state EXCEPT !.connections =
                                Append(@, optimisticConnection)]
                /\ pending' = pending \cup
                       {Request(hcalls + 1, "create", tempConnectionId,
                                optimisticConnection)}
                /\ hist' = [made EXCEPT !.undo = [n |-> hcalls + 1,
                                                  lists |-> Lists(state)]]
                /\ hop' = HookOp("createConnection", "issued")
    /\ UNCHANGED <<rendered, store, stream, before, data, delivered>>
    /\ UNCHANGED vars

\* part_000 305-309: the request of createConnection succeeded.
createResolved(p) ==
    /\ p.kind = "create"
    /\ state' = [state EXCEPT !.connections = WithoutId(@, p.id)]
    /\ pending' = pending \ {p}
    /\ stream' = StreamAfter(p)
    /\ hist' = After(hist, state, state')
    /\ hop' = HookOp("createConnection", "resolved")
    /\ UNCHANGED <<rendered, store, before, data, hcalls, delivered>>
    /\ UNCHANGED vars

\* part_000 311-319: the request of createConnection failed, by a response
\* that is not ok (api.ts 313-315) or by a fetch that rejects: the server
\* has not acted on it.
createRejected(p) ==
    /\ p.kind = "create"
    /\ p.status = "sent"
    /\ state' = [state EXCEPT !.connections = WithoutId(@, p.id),
                              !.error = "Failed to create connection"]
    /\ pending' = pending \ {p}
    /\ hist' = [After(hist, state, state') EXCEPT !.foreign = TRUE]
    /\ hop' = HookOp("createConnection", "rejected")
    /\ UNCHANGED <<rendered, store, stream, before, data, hcalls, delivered>>
    /\ UNCHANGED vars

\* The ids a caller may ask deleteConnection to delete: those of the edges
\* on the canvas and those the canonical state holds.
KnownIds ==
    {rendered.connections[i].id : i \in DOMAIN rendered.connections}
        \cup {state.connections[i].id : i \in DOMAIN state.connections}

Find(connections, id) ==
    LET at == {i \in DOMAIN connections : connections[i].id = id}
    IN  IF at = {} THEN NoUIConnection ELSE connections[Lowest(at)]

\* deleteConnection, part_000 322-338, called through the callback of the
\* last committed render: connectionToDelete is found in that render's
\* `state.connections` (deps at 350).
deleteConnection(connectionId) ==
    /\ hcalls + delivered < MaxInputs
    /\ hcalls' = hcalls + 1
    /\ LET connectionToDelete == Find(rendered.connections, connectionId)
       IN  IF connectionToDelete = NoUIConnection
           THEN /\ state' = state
                /\ pending' = pending
                /\ hist' = hist
                /\ hop' = HookOp("deleteConnection", "not found")
           ELSE /\ state' = [state EXCEPT !.connections =
                                WithoutId(@, connectionId)]
                /\ pending' = pending \cup
                       {Request(hcalls + 1, "delete", connectionId,
                                connectionToDelete)}
                /\ hist' = [hist EXCEPT !.foreign = TRUE,
                                        !.undo = [n |-> hcalls + 1,
                                                  lists |-> Lists(state)]]
                /\ hop' = HookOp("deleteConnection", "issued")
    /\ UNCHANGED <<rendered, store, stream, before, data, delivered>>
    /\ UNCHANGED vars

\* part_000 338-339: the request of deleteConnection succeeded.
deleteResolved(p) ==
    /\ p.kind = "delete"
    /\ pending' = pending \ {p}
    /\ stream' = StreamAfter(p)
    /\ hop' = HookOp("deleteConnection", "resolved")
    /\ UNCHANGED <<state, rendered, store, before, data, hist, hcalls,
                   delivered>>
    /\ UNCHANGED vars

\* part_000 341-348: the request of deleteConnection failed (api.ts
\* 337-339): the server has not acted on it.
deleteRejected(p) ==
    /\ p.kind = "delete"
    /\ p.status = "sent"
    /\ state' = [state EXCEPT !.connections = Append(@, p.conn),
                              !.error = "Failed to delete connection"]
    /\ pending' = pending \ {p}
    /\ hist' = After(hist, state, state')
    /\ hop' = HookOp("deleteConnection", "rejected")
    /\ UNCHANGED <<rendered, store, stream, before, data, hcalls, delivered>>
    /\ UNCHANGED vars

\* loadData, part_000 27-29, called by the mount effect (168) or refresh.
loadData ==
    /\ hcalls + delivered < MaxInputs
    /\ hcalls' = hcalls + 1
    /\ state' = [state EXCEPT !.loading = TRUE, !.error = NoError]
    /\ pending' = pending \cup
           {Request(hcalls + 1, "load", NoId, NoUIConnection)}
    /\ hop' = HookOp("loadData", "issued")
    /\ UNCHANGED <<rendered, store, stream, before, data, hist, delivered>>
    /\ UNCHANGED vars

\* part_000 31-45: both lists arrived.  `agents.map(apiService
\* .apiAgentToUIAgent)` passes the method without its receiver, so for the
\* first agent `this.getStoredPosition` raises a TypeError and the catch of
\* 46-52 runs; with no agent the map calls nothing and the lists are
\* replaced.
loadResolved(p, agents, connections) ==
    /\ p.kind = "load"
    /\ state' = IF agents # <<>>
                THEN [state EXCEPT !.error = "TypeError", !.loading = FALSE]
                ELSE [state EXCEPT
                         !.agents = <<>>,
                         !.connections =
                             Map(connections, apiConnectionToUIConnection),
                         !.loading = FALSE]
    /\ pending' = pending \ {p}
    /\ hist' = [After(hist, state, state') EXCEPT !.foreign = TRUE]
    /\ hop' = HookOp("loadData", IF agents # <<>> THEN "caught"
                                 ELSE "resolved")
    /\ UNCHANGED <<rendered, store, stream, before, data, hcalls, delivered>>
    /\ UNCHANGED vars

\* part_000 46-52: a request of loadData failed.
loadRejected(p) ==
    /\ p.kind = "load"
    /\ state' = [state EXCEPT !.error = "Failed to fetch",
                              !.loading = FALSE]
    /\ pending' = pending \ {p}
    /\ hop' = HookOp("loadData", "rejected")
    /\ UNCHANGED <<rendered, store, stream, before, data, hist, hcalls,
                   delivered>>
    /\ UNCHANGED vars

\* uiConnectionToApiConnection, api.ts 491-500.
uiConnectionToApiConnection(uiConnection) ==
    ApiConnection(uiConnection.id, uiConnection.fromAgent,
                  uiConnection.fromHandle, uiConnection.toAgent,
                  uiConnection.toHandle)

\* executeWorkflow, part_000 352-357, called through the callback of the
\* last committed render (deps at 365): the request carries the relations
\* of that render's `state.connections`.
executeWorkflow ==
    /\ hcalls + delivered < MaxInputs
    /\ hcalls' = hcalls + 1
    /\ pending' = pending \cup
           {[n |-> hcalls + 1, kind |-> "workflow",
             connections |-> Map(rendered.connections,
                                 uiConnectionToApiConnection),
             status |-> "sent"]}
    /\ hop' = HookOp("executeWorkflow", "issued")
    /\ UNCHANGED <<state, rendered, store, stream, before, data, hist,
                   delivered>>
    /\ UNCHANGED vars

\* part_000 357: the request of executeWorkflow succeeded.
executeWorkflowResolved(p) ==
    /\ p.kind = "workflow"
    /\ pending' = pending \ {p}
    /\ hop' = HookOp("executeWorkflow", "resolved")
    /\ UNCHANGED <<state, rendered, store, stream, before, data, hist,
                   hcalls, delivered>>
    /\ UNCHANGED vars

\* part_000 358-364: the request of executeWorkflow failed.
executeWorkflowRejected(p) ==
    /\ p.kind = "workflow"
    /\ state' = [state EXCEPT !.error = "Failed to execute workflow"]
    /\ pending' = pending \ {p}
    /\ hop' = HookOp("executeWorkflow", "rejected")
    /\ UNCHANGED <<rendered, store, stream, before, data, hist, hcalls,
                   delivered>>
    /\ UNCHANGED vars

\* React commits a render of the canonical state: from now on callers hold
\* the callbacks that close over it.
Render ==
    /\ rendered # Lists(state)
    /\ rendered' = Lists(state)
    /\ UNCHANGED <<state, store, pending, stream, before, data, hop, hist,
                   hcalls, delivered>>
    /\ UNCHANGED vars

\* The server has acted on request p and its broadcast reaches the client
\* before the HTTP response does.
Announced(p) ==
    /\ p.kind \in {"create", "delete"}
    /\ p.status = "sent"
    /\ Reduce(Broadcast(p))
    /\ pending' = (pending \ {p}) \cup {[p EXCEPT !.status = "announced"]}
    /\ hist' = After(hist, state, state')
    /\ UNCHANGED <<stream, before, data, delivered>>

\* The broadcast of a request reaches the client after the HTTP response.
OwnMessage(msg) ==
    /\ msg \in stream
    /\ stream' = stream \ {msg}
    /\ Reduce(msg)
    /\ hist' = After(hist, state, state')
    /\ UNCHANGED <<pending, before, data, delivered>>

\* The agent that message msg removes from canonical state s, with the
\* number of each deleteConnection request in flight.
GoneAfter(msg, s) ==
    IF msg.type = "agent_deleted"
          /\ \E i \in DOMAIN s.agents : s.agents[i].id = msg.agent_id
    THEN {[n |-> p.n, agent |-> msg.agent_id] :
             p \in {q \in pending : q.kind = "delete"}}
    ELSE {}

\* The stream delivers a message of other origin.
ForeignMessage(msg) ==
    /\ hcalls + delivered < MaxInputs
    /\ delivered' = delivered + 1
    /\ Reduce(msg)
    /\ hist' = [After(hist, state, state') EXCEPT
                   !.foreign = TRUE,
                   !.gone = @ \cup GoneAfter(msg, state)]
    /\ UNCHANGED <<pending, stream, before, data>>

NextHook ==
    \/ \E t \in CreateTuples : createConnection(t)
    \/ \E id \in KnownIds : deleteConnection(id)
    \/ loadData
    \/ \E p \in pending : createResolved(p)
    \/ \E p \in pending : createRejected(p)
    \/ \E p \in pending : deleteResolved(p)
    \/ \E p \in pending : deleteRejected(p)
    \/ \E p \in pending, f \in Fetched :
          loadResolved(p, f.agents, f.connections)
    \/ \E p \in pending : loadRejected(p)
    \/ executeWorkflow
    \/ \E p \in pending : executeWorkflowResolved(p)
    \/ \E p \in pending : executeWorkflowRejected(p)
    \/ Render
    \/ \E p \in pending : Announced(p)
    \/ \E msg \in stream : OwnMessage(msg)
    \/ \E msg \in ForeignMessages : ForeignMessage(msg)

\* The hook from its first render on, the manager as constructed.
InitHook == ManagerInit /\ HookInit

SpecHook == InitHook /\ [][NextHook]_hookVars

\* ------------------------------------- the reducer on drawn inputs
SeqsUpTo(S, n) == UNION {[1..k -> S] : k \in 0..n}

DistinctIds(seq) ==
    \A i, j \in DOMAIN seq : seq[i].id = seq[j].id => i = j

\* Agents as initial_state leaves them, and agents that were since dragged
\* and selected.
Dragged(agent) == [agent EXCEPT !.x = 340, !.y = 220, !.selected = TRUE]

UIAgents ==
    {apiAgentToUIAgent(Agent1, EmptyStore),
     Dragged(apiAgentToUIAgent(Agent1b, EmptyStore)),
     apiAgentToUIAgent(Agent2, EmptyStore),
     Dragged(apiAgentToUIAgent(Agent3, EmptyStore))}

\* Relations the server confirmed and placeholders of calls in flight.
Placeholder(n, relation) ==
    [apiConnectionToUIConnection(relation) EXCEPT !.id = TempId(n)]

UIConnections ==
    {apiConnectionToUIConnection(Relation1),
     apiConnectionToUIConnection(Relation3),
     apiConnectionToUIConnection(Relation4),
     Placeholder(1, Relation2),
     Placeholder(2, Relation4)}

\* Stores: nothing stored; a position near the first cell; values that
\* are no positions (an object with strings for numbers, text that is no
\* JSON); and the text `null`, the empty string and a position in the
\* second cell.
Stores ==
    {EmptyStore,
     [EmptyStore EXCEPT !["a2"] = Item("object", TRUE, 120, 90)],
     [EmptyStore EXCEPT !["a1"] = Item("object", FALSE, 100, 100),
                        !["a3"] = Item("garbage", FALSE, 0, 0)],
     [EmptyStore EXCEPT !["a1"] = Item("null", FALSE, 0, 0),
                        !["a2"] = Item("empty", FALSE, 0, 0),
                        !["a3"] = Item("object", TRUE, 300, 100)]}

CanonicalStates ==
    {[agents |-> a, connections |-> c, loading |-> f.loading,
      error |-> f.error, connected |-> f.connected] :
        a \in {s \in SeqsUpTo(UIAgents, MaxInitAgents) : DistinctIds(s)},
        c \in SeqsUpTo(UIConnections, MaxInitRelations),
        f \in {[loading |-> TRUE, error |-> NoError, connected |-> FALSE],
               [loading |-> FALSE, error |-> "Failed to fetch",
                connected |-> TRUE]}}

InitReducer ==
    /\ ManagerInit
    /\ state \in CanonicalStates
    /\ rendered = Lists(state)
    /\ store \in Stores
    /\ pending = {}
    /\ stream = {}
    /\ before = state
    /\ data = NoEvent
    /\ hop = HookOp("init", "none")
    /\ hist = NoHistory
    /\ hcalls = 0
    /\ delivered = 0

\* The reducer is applied once to the drawn state.
ReduceOnce(msg) ==
    /\ hop.op = "init"
    /\ Reduce(msg)
    /\ before' = state
    /\ data' = msg
    /\ UNCHANGED <<pending, stream, hist, delivered>>

NextReducer == \E msg \in Messages : ReduceOnce(msg)

SpecReducer == InitReducer /\ [][NextReducer]_hookVars

(***************************************************************************)
(* Properties of the reducer and of the optimistic coordinator.           *)
(***************************************************************************)

\* The reducer has just been applied to `before` with message `data`.
Reduced(types) == hop.op = "message" /\ data.type \in types

Flags(s) ==
    [loading |-> s.loading, error |-> s.error, connected |-> s.connected]

\* Number of relations of a list that satisfy P.
Count(connections, P(_)) ==
    Cardinality({i \in DOMAIN connections : P(connections[i])})

\* C11: for a message of no type, of an unknown type, or lacking a payload
\* field its case reads, the reducer returns the state it was given.
C11_MalformedLeavesState ==
    (hop.op = "message" /\ data \in Malformed) => state = before

\* C12: in every reachable canonical state, placeholders of round-trips in
\* flight included, no two relations have the same four-tuple.
C12_NoDuplicateTuples ==
    \A i, j \in DOMAIN state.connections :
        TupleOf(state.connections[i]) = TupleOf(state.connections[j])
            => i = j

\* C13: when createConnection was called twice in sequence with the same
\* four arguments, both round-trips are over and every stream message they
\* caused is applied, and nothing else touched the lists, the state holds
\* exactly one relation with that four-tuple.
C13_TwiceYieldsOne ==
    \A t \in CreateTuples :
        (/\ hist.creates = 2
         /\ hist.sequential
         /\ ~hist.foreign
         /\ pending = {}
         /\ stream = {})
            => Count(state.connections, LAMBDA c : TupleOf(c) = t) = 1

SameRecords(l1, l2) ==
    /\ Range(l1.agents) = Range(l2.agents)
    /\ Range(l1.connections) = Range(l2.connections)

\* C14: when the round-trip of createConnection or deleteConnection fails
\* and nothing but its optimistic apply changed the lists meanwhile, the
\* lists after the rollback hold the records they held before the apply,
\* and error is set.
C14_RollbackRestores ==
    [][\A p \in pending :
          ((createRejected(p) \/ deleteRejected(p)) /\ hist.undo.n = p.n)
              => /\ SameRecords(Lists(state'), hist.undo.lists)
                 /\ state'.error # NoError]_hookVars

\* C15: agent_deleted for X removes the agents with id X and the relations
\* that start or end at X, and leaves every other agent and relation, in
\* their order, and the flags as they were.
C15_AgentDeletedCascade ==
    Reduced({"agent_deleted"}) =>
        LET x == data.agent_id
        IN  /\ state.agents =
                 SelectSeq(before.agents, LAMBDA a : a.id # x)
            /\ state.connections =
                 SelectSeq(before.connections,
                           LAMBDA c : x \notin {c.fromAgent, c.toAgent})
            /\ Flags(state) = Flags(before)

C15_Witness ==
    /\ Reduced({"agent_deleted"})
    /\ data.agent_id = "a3"
    /\ \E i \in DOMAIN before.agents : before.agents[i].id = "a3"
    /\ before.connections = <<apiConnectionToUIConnection(Relation1),
                              apiConnectionToUIConnection(Relation4)>>
    /\ state.connections = <<apiConnectionToUIConnection(Relation1)>>
    /\ Len(state.agents) = Len(before.agents) - 1

\* C16: agent_updated for E keeps E's x, y and selected, sets E's model,
\* prompt, status, address and error to the values of the message (the
\* empty prompt for a message without one), and changes no other agent and
\* no relation.
C16_AgentUpdatedFrame ==
    (Reduced({"agent_updated"}) /\ data \in WellFormed) =>
        /\ Len(state.agents) = Len(before.agents)
        /\ \A i \in DOMAIN before.agents :
              LET old == before.agents[i]
                  new == state.agents[i]
              IN  IF old.id = data.agent.id
                  THEN /\ new.id = old.id
                       /\ new.x = old.x
                       /\ new.y = old.y
                       /\ new.selected = old.selected
                       /\ new.model = data.agent.model
                       /\ new.prompt = IF data.agent.prompt = Absent THEN ""
                                       ELSE data.agent.prompt
                       /\ new.status = data.agent.status
                       /\ new.url = data.agent.url
                       /\ new.error = data.agent.error_message
                  ELSE new = old
        /\ state.connections = before.connections

C16_Witness ==
    /\ Reduced({"agent_updated"})
    /\ data = AgentUpdatedMsg(Agent1)
    /\ before.agents = <<Dragged(apiAgentToUIAgent(Agent1b, EmptyStore)),
                         apiAgentToUIAgent(Agent2, EmptyStore)>>
    /\ before.connections # <<>>
    /\ state.agents[1].model = "m1"
    /\ state.agents[1].status = "running"
    /\ state.agents[1].selected
    /\ state.agents[1].x = 340

\* C17: connection_added appends its relation when no relation of the list
\* has the same four-tuple, and leaves the list as it was otherwise.
C17_AddDeduplicates ==
    (Reduced({"connection_added"}) /\ data \in WellFormed) =>
        LET added == data.connection
            t == Tuple(added.from_agent, added.to_agent, added.from_handle,
                       added.to_handle)
        IN  IF HasTuple(before.connections, t)
            THEN state.connections = before.connections
            ELSE /\ Len(state.connections) = Len(before.connections) + 1
                 /\ SubSeq(state.connections, 1, Len(before.connections))
                        = before.connections
                 /\ state.connections[Len(state.connections)].id = added.id
                 /\ TupleOf(state.connections[Len(state.connections)]) = t

\* C18: initial_state makes the two lists hold the records of the snapshot
\* and nothing else, in the snapshot's order, and sets connected and clears
\* loading.
C18_InitialStateReplaces ==
    (Reduced({"initial_state"}) /\ data \in WellFormed) =>
        /\ Len(state.agents) = Len(data.agents)
        /\ \A i \in DOMAIN data.agents :
              /\ state.agents[i].id = data.agents[i].id
              /\ state.agents[i].label = data.agents[i].name
              /\ state.agents[i].model = data.agents[i].model
              /\ state.agents[i].status = data.agents[i].status
        /\ Len(state.connections) = Len(data.connections)
        /\ \A i \in DOMAIN data.connections :
              /\ state.connections[i].id = data.connections[i].id
              /\ state.connections[i].fromAgent =
                     data.connections[i].from_agent
              /\ state.connections[i].toAgent = data.connections[i].to_agent
              /\ state.connections[i].fromHandle =
                     data.connections[i].from_handle
              /\ state.connections[i].toHandle =
                     data.connections[i].to_handle
        /\ state.connected
        /\ ~state.loading

C18_Witness ==
    /\ Reduced({"initial_state"})
    /\ data = InitialStateMsg(<<Agent1, Agent2>>, <<Relation1>>)
    /\ before.connections = <<Placeholder(1, Relation2),
                              apiConnectionToUIConnection(Relation3)>>
    /\ Len(before.agents) = 1
    /\ before.loading
    /\ state.connections = <<apiConnectionToUIConnection(Relation1)>>
    /\ Len(state.agents) = 2

\* C19: a createConnection call whose four-tuple the canonical state holds
\* already, as a confirmed relation or as a placeholder, sends no request,
\* leaves the lists as they were and does not set error.
C19_DuplicateCallIsNoOp ==
    [][\A t \in CreateTuples :
          (createConnection(t) /\ HasTuple(state.connections, t))
              => /\ pending' = pending
                 /\ Lists(state') = Lists(state)
                 /\ state'.error = state.error]_hookVars

InFlight == {p \in pending : p.kind = "create"}

Held(s, p) == Count(s.connections, LAMBDA c : c.id = p.id)

\* C20: while the round-trip of a createConnection call is in flight, the
\* canonical state holds exactly one relation with the call's temporary id.
C20_PlaceholderWhileInFlight ==
    \A p \in InFlight : Held(state, p) = 1

\* The steps that replace the relation list or cascade over p's ends, and
\* the steps of a deleteConnection round-trip for p's temporary id: its
\* optimistic removal, its rollback and the server's broadcast of it.
Replacing(p) ==
    \/ \E msg \in ForeignMessages :
          /\ ForeignMessage(msg)
          /\ \/ msg.type = "initial_state"
             \/ /\ msg.type = "agent_deleted"
                /\ msg.agent_id \in {p.conn.fromAgent, p.conn.toAgent}
    \/ \E q \in pending, f \in Fetched :
          loadResolved(q, f.agents, f.connections)
    \/ deleteConnection(p.id)
    \/ \E q \in pending :
          q.kind = "delete" /\ q.id = p.id
              /\ (deleteRejected(q) \/ Announced(q))
    \/ \E msg \in stream :
          msg.type = "connection_removed" /\ msg.connection_id = p.id
              /\ OwnMessage(msg)

\* C20, amended: the temporary id is no server id and right after the call
\* the state holds exactly one relation with it; while the round-trip is in
\* flight, the number of relations with that id changes only by an
\* initial_state message, a load that completes, an agent_deleted message
\* for one of the relation's ends, or a deleteConnection of that very id.
C20_PlaceholderUntilReplaced ==
    /\ [](\A p \in InFlight : p.id.kind = "temp")
    /\ [][/\ \A p \in InFlight' :
                (\A q \in InFlight : q.n # p.n) => Held(state', p) = 1
          /\ \A p \in InFlight :
                (/\ \E q \in InFlight' : q.n = p.n
                 /\ Held(state', p) # Held(state, p)) => Replacing(p)]_hookVars

C20_Witness ==
    \E p \in InFlight :
        /\ p.status = "announced"
        /\ Held(state, p) = 1
        /\ Len(state.connections) = 2

(***************************************************************************)
(* The agent operations of the hook (part_000 174-263, 352-379) with the   *)
(* stream, loadData and the position store.                                *)
(***************************************************************************)

\* A round-trip of an agent operation in flight, with the agent it is about
\* (for createAgent the ApiAgent the server answers with).
AgentRequest(n, kind, agent) ==
    [n |-> n, kind |-> kind, agent |-> agent, status |-> "sent"]

\* The history of the agent operations: made, the ids createAgent was called
\* for; deleted, the ids an agent_deleted message has removed from the list
\* and nothing has put back since; since, what the messages of the stream
\* changed while a loadData was in flight, by the number of its request.
NoAgentHistory ==
    [creates |-> 0, sequential |-> TRUE, foreign |-> FALSE, undo |-> NoUndo,
     made |-> {}, deleted |-> {}, since |-> {}]

\* The agents createAgent creates, the ones the other operations are called
\* for, the other operations, and where agents are dragged to.
CreatedAgents == {Agent3}
OperatedIds == {"a1"}
OtherOperations ==
    {"updateAgent", "startAgent", "stopAgent", "queryAgent",
     "executeWorkflow"}
DropPoints == {Position(340, 220)}

\* The operations whose catch block ends with `throw error`: part_000 191,
\* 210, 223, 236, 249, 261, 318, 348, 363.  The catch of loadData (46-52)
\* and those of handleWebSocketMessage (146-156) do not.
Rethrowing ==
    {"createAgent", "deleteAgent", "createConnection", "deleteConnection"}
        \cup OtherOperations

\* The promise the operation that ran last had returned is rejected: its
\* catch block ran.
Raised == hop.branch \in {"rejected", "threw"} /\ hop.op \in Rethrowing

Ids(agents) == {agents[i].id : i \in DOMAIN agents}

\* createAgent, part_000 174-176: the request is sent.  The server gives a
\* new agent an id no agent has.
createAgent(apiAgent) ==
    /\ hcalls + delivered < MaxInputs
    /\ apiAgent.id \notin hist.made \cup Ids(state.agents)
    /\ hcalls' = hcalls + 1
    /\ pending' = pending \cup
           {AgentRequest(hcalls + 1, "createAgent", apiAgent)}
    /\ hist' = [hist EXCEPT !.made = @ \cup {apiAgent.id}]
    /\ hop' = HookOp("createAgent", "issued")
    /\ UNCHANGED <<state, rendered, store, stream, before, data, delivered>>
    /\ UNCHANGED vars

\* part_000 178-185: the request of createAgent succeeded.
createAgentResolved(p) ==
    /\ p.kind = "createAgent"
    /\ LET newAgent == apiAgentToUIAgent(p.agent, store)
       IN  state' = [state EXCEPT !.agents = Append(@, newAgent)]
    /\ pending' = pending \ {p}
    /\ hist' = [hist EXCEPT !.deleted = @ \ {p.agent.id}]
    /\ hop' = HookOp("createAgent", "resolved")
    /\ UNCHANGED <<rendered, store, stream, before, data, hcalls, delivered>>
    /\ UNCHANGED vars

\* part_000 186-192: the request of createAgent failed (api.ts 210-213):
\* the server has created nothing.
createAgentRejected(p) ==
    /\ p.kind = "createAgent"
    /\ p.status = "sent"
    /\ state' = [state EXCEPT !.error = "Failed to create agent"]
    /\ pending' = pending \ {p}
    /\ hop' = HookOp("createAgent", "rejected")
    /\ UNCHANGED <<rendered, store, stream, before, data, hist, hcalls,
                   delivered>>
    /\ UNCHANGED vars

\* deleteAgent, part_000 195-197: the request is sent.
deleteAgent(agentId) ==
    /\ hcalls + delivered < MaxInputs
    /\ hcalls' = hcalls + 1
    /\ pending' = pending \cup
           {AgentRequest(hcalls + 1, "deleteAgent", agentId)}
    /\ hop' = HookOp("deleteAgent", "issued")
    /\ UNCHANGED <<state, rendered, store, stream, before, data, hist,
                   delivered>>
    /\ UNCHANGED vars

\* part_000 198-211: the request of deleteAgent succeeded.  The hook has no
\* setAgentPositions (it is neither declared nor imported), so line 199
\* raises a ReferenceError, the catch sets error and throws again; nothing
\* touches localStorage.  The server broadcasts agent_deleted.
deleteAgentResolved(p) ==
    /\ p.kind = "deleteAgent"
    /\ state' = [state EXCEPT !.error = "setAgentPositions is not defined"]
    /\ pending' = pending \ {p}
    /\ stream' = stream \cup {AgentDeletedMsg(p.agent)}
    /\ hop' = HookOp("deleteAgent", "threw")
    /\ UNCHANGED <<rendered, store, before, data, hist, hcalls, delivered>>
    /\ UNCHANGED vars

\* part_000 205-211: the request of deleteAgent failed (api.ts 280-282).
deleteAgentRejected(p) ==
    /\ p.kind = "deleteAgent"
    /\ state' = [state EXCEPT !.error = "Failed to delete agent"]
    /\ pending' = pending \ {p}
    /\ hop' = HookOp("deleteAgent", "rejected")
    /\ UNCHANGED <<rendered, store, stream, before, data, hist, hcalls,
                   delivered>>
    /\ UNCHANGED vars

\* updateAgent, startAgent, stopAgent, queryAgent and executeWorkflow,
\* part_000 214-263 and 352-365: the request is sent.  executeWorkflow
\* takes a message where the others take the id of an agent.
operate(kind, agentId) ==
    /\ hcalls + delivered < MaxInputs
    /\ hcalls' = hcalls + 1
    /\ pending' = pending \cup {AgentRequest(hcalls + 1, kind, agentId)}
    /\ hop' = HookOp(kind, "issued")
    /\ UNCHANGED <<state, rendered, store, stream, before, data, hist,
                   delivered>>
    /\ UNCHANGED vars

\* The request of one of them succeeded: the hook changes nothing.
operateResolved(p) ==
    /\ p.kind \in OtherOperations
    /\ pending' = pending \ {p}
    /\ hop' = HookOp(p.kind, "resolved")
    /\ UNCHANGED <<state, rendered, store, stream, before, data, hist,
                   hcalls, delivered>>
    /\ UNCHANGED vars

\* The request of one of them failed: the catch sets error and throws.
operateRejected(p) ==
    /\ p.kind \in OtherOperations
    /\ state' = [state EXCEPT !.error = "Failed to " \o p.kind]
    /\ pending' = pending \ {p}
    /\ hop' = HookOp(p.kind, "rejected")
    /\ UNCHANGED <<rendered, store, stream, before, data, hist, hcalls,
                   delivered>>
    /\ UNCHANGED vars

\* updateAgentPosition, part_000 368-379.
updateAgentPosition(agentId, x, y) ==
    /\ hcalls + delivered < MaxInputs
    /\ hcalls' = hcalls + 1
    /\ store' = storeAgentPosition(store, agentId, x, y)
    /\ state' = [state EXCEPT
           !.agents = Map(@, LAMBDA agent :
                             IF agent.id = agentId
                             THEN [agent EXCEPT !.x = x, !.y = y]
                             ELSE agent)]
    /\ hop' = HookOp("updateAgentPosition", "stored")
    /\ UNCHANGED <<rendered, pending, stream, before, data, hist, delivered>>
    /\ UNCHANGED vars

\* The ids agent_deleted is known to have removed, after the reducer went
\* from canonical state s1 to s2 on message msg.
DeletedAfter(deleted, msg, s1, s2) ==
    IF msg.type = "agent_deleted" /\ msg.agent_id \in Ids(s1.agents)
    THEN (deleted \cup {msg.agent_id}) \ Ids(s2.agents)
    ELSE deleted \ Ids(s2.agents)

\* The ids of the agents and of the relations that canonical state s1 holds
\* and s2 does not (gone), and that s2 holds and s1 does not (new).
Changes(s1, s2) ==
    [goneAgents |-> Ids(s1.agents) \ Ids(s2.agents),
     goneConnections |-> Ids(s1.connections) \ Ids(s2.connections),
     newAgents |-> Ids(s2.agents) \ Ids(s1.agents),
     newConnections |-> Ids(s2.connections) \ Ids(s1.connections)]

\* What a message that took the reducer from s1 to s2 adds to the changes
\* seen by the loads in flight.
SinceAfter(since, s1, s2) ==
    IF Lists(s1) = Lists(s2) THEN since
    ELSE since \cup {[n |-> p.n, change |-> Changes(s1, s2)] :
                        p \in {q \in pending : q.kind = "load"}}

\* A stream message reaches the reducer.
Apply(msg) ==
    /\ Reduce(msg)
    /\ before' = state
    /\ data' = msg
    /\ hist' = [hist EXCEPT
                   !.deleted = DeletedAfter(@, msg, state, state'),
                   !.since = SinceAfter(@, state, state')]

\* The stream delivers the broadcast of one of this client's requests.
DeliverOwn(msg) ==
    /\ msg \in stream
    /\ stream' = stream \ {msg}
    /\ Apply(msg)
    /\ UNCHANGED <<pending, delivered>>

\* The messages of other origin: a snapshot after a (re)connect, and an
\* update and a deletion other clients caused.
AgentMessages ==
    {InitialStateMsg(<<Agent1, Agent2>>, <<Relation1>>),
     AgentUpdatedMsg(Agent1b),
     AgentDeletedMsg("a1")}

DeliverForeign(msg) ==
    /\ hcalls + delivered < MaxInputs
    /\ delivered' = delivered + 1
    /\ Apply(msg)
    /\ UNCHANGED <<pending, stream>>

\* The snapshot the server sends after a (re)connect when it has acted on
\* the createAgent request p and the response is still on its way.
Snapshot(p) == InitialStateMsg(<<Agent1, p.agent>>, <<>>)

DeliverSnapshot(p) ==
    /\ p.kind = "createAgent"
    /\ p.status = "sent"
    /\ Apply(Snapshot(p))
    /\ pending' = (pending \ {p}) \cup {[p EXCEPT !.status = "announced"]}
    /\ UNCHANGED <<stream, delivered>>

NextAgents ==
    \/ \E a \in CreatedAgents : createAgent(a)
    \/ \E p \in pending : createAgentResolved(p)
    \/ \E p \in pending : createAgentRejected(p)
    \/ \E id \in OperatedIds : deleteAgent(id)
    \/ \E p \in pending : deleteAgentResolved(p)
    \/ \E p \in pending : deleteAgentRejected(p)
    \/ \E kind \in OtherOperations, id \in OperatedIds : operate(kind, id)
    \/ \E p \in pending : operateResolved(p)
    \/ \E p \in pending : operateRejected(p)
    \/ \E id \in OperatedIds, pos \in DropPoints :
          updateAgentPosition(id, pos.x, pos.y)
    \/ loadData
    \/ \E p \in pending, f \in Fetched :
          loadResolved(p, f.agents, f.connections)
    \/ \E p \in pending : loadRejected(p)
    \/ \E msg \in stream : DeliverOwn(msg)
    \/ \E msg \in AgentMessages : DeliverForeign(msg)
    \/ \E p \in pending : DeliverSnapshot(p)

\* The hook from its first render on, with nothing in localStorage.
InitAgents ==
    /\ ManagerInit
    /\ state = InitialState
    /\ rendered = Lists(InitialState)
    /\ store = EmptyStore
    /\ pending = {}
    /\ stream = {}
    /\ before = InitialState
    /\ data = NoEvent
    /\ hop = HookOp("init", "none")
    /\ hist = NoAgentHistory
    /\ hcalls = 0
    /\ delivered = 0

SpecAgents == InitAgents /\ [][NextAgents]_hookVars

(***************************************************************************)
(* The manager with the hook mounted: the fan-outs of the manager that     *)
(* call the callback of the hook run its reducer.                          *)
(***************************************************************************)
InitLink ==
    /\ ManagerInit
    /\ state = InitialState
    /\ rendered = Lists(InitialState)
    /\ store = EmptyStore
    /\ pending = {}
    /\ stream = Linked
    /\ before = InitialState
    /\ data = NoEvent
    /\ hop = HookOp("init", "none")
    /\ hist = NoLinkHistory
    /\ hcalls = 0
    /\ delivered = 0

SpecLink == InitLink /\ [][Next]_vars

(***************************************************************************)
(* Properties of temporary ids, of the connection events, of the position *)
(* store and of the agent operations.                                      *)
(***************************************************************************)

\* ------------------------------------------------------------------ C21
\* C21: the canonical state holds a relation with a temporary id only while
\* the round-trip of the createConnection call that made the id is in
\* flight: none is left when it has completed and none comes back later.
C21_TempIdOnlyInFlight ==
    \A i \in DOMAIN state.connections :
        state.connections[i].id.kind = "temp"
            => \E p \in pending : /\ p.kind = "create"
                                  /\ p.id = state.connections[i].id

\* ------------------------------------------------------------------ C23
\* C23: connection_established sets connected and empties error;
\* connection_error and connection_failed clear connected and set error to
\* a non-empty message; all three leave agents, relations and loading.
C23_ConnectionEvents ==
    /\ Reduced({"connection_established"})
          => /\ state.connected
             /\ state.error = NoError
    /\ Reduced({"connection_error", "connection_failed"})
          => /\ ~state.connected
             /\ state.error \notin {NoError, ""}
    /\ Reduced({"connection_established", "connection_error",
                "connection_failed"})
          => /\ Lists(state) = Lists(before)
             /\ state.loading = before.loading

\* connection_established was applied to a state that showed an error, was
\* not connected and held agents and relations.
C23_Witness ==
    /\ Reduced({"connection_established"})
    /\ before.error # NoError
    /\ before.agents # <<>>
    /\ before.connections # <<>>
    /\ state.error = NoError

\* ------------------------------------------------------------------ C25
\* Two positions are apart when they differ by the threshold or more on at
\* least one axis.
Apart(a, b) ==
    \/ Abs(a.x - b.x) >= 50
    \/ Abs(a.y - b.y) >= 50

\* The value stored for an agent is a position: an object with numbers for
\* x and y.
Persisted(st, id) == st[id].json = "object" /\ st[id].numeric

\* C25: after an initial_state snapshot, any two of its agents that had no
\* stored position are apart.
C25_DefaultsApart ==
    (Reduced({"initial_state"}) /\ hop.branch = "returned")
        => \A i, j \in DOMAIN state.agents :
              (/\ i # j
               /\ ~Persisted(store, state.agents[i].id)
               /\ ~Persisted(store, state.agents[j].id))
                  => Apart(state.agents[i], state.agents[j])

\* ------------------------------------------------------------------ C26
\* The center of cell k of the 10x10 grid, row-major, cell size 200 and
\* margin 100.
Center(k) == [x |-> 100 + 200 * (k % 10), y |-> 100 + 200 * (k \div 10)]

\* A persisted position lies within 50 units of c on both axes.
Taken(st, c) ==
    \E b \in DOMAIN st :
        /\ Persisted(st, b)
        /\ Abs(st[b].x - c.x) < 50
        /\ Abs(st[b].y - c.y) < 50

\* C26: the position an agent of a snapshot gets is its persisted record
\* when there is one, and else the first cell center, scanning row-major,
\* that no persisted position is within 50 units of on both axes.
C26_PositionFor ==
    (Reduced({"initial_state"}) /\ hop.branch = "returned")
        => \A i \in DOMAIN state.agents :
              LET a == state.agents[i]
              IN  IF Persisted(store, a.id)
                  THEN a.x = store[a.id].x /\ a.y = store[a.id].y
                  ELSE \E k \in 0..99 :
                          /\ a.x = Center(k).x /\ a.y = Center(k).y
                          /\ ~Taken(store, Center(k))
                          /\ \A j \in 0..(k - 1) : Taken(store, Center(j))

\* A snapshot put one agent at its persisted position near the first cell
\* and another, with nothing persisted, in the second cell.
C26_Witness ==
    /\ Reduced({"initial_state"})
    /\ hop.branch = "returned"
    /\ \E i, j \in DOMAIN state.agents :
          /\ Persisted(store, state.agents[i].id)
          /\ state.agents[i].x = 120 /\ state.agents[i].y = 90
          /\ ~Persisted(store, state.agents[j].id)
          /\ state.agents[j].x = 300 /\ state.agents[j].y = 100

\* ------------------------------------------------------------------ C29
\* A stored value that is no position: text that does not parse, null, or
\* a value lacking numeric x and y.
MalformedItem(item) ==
    item.json # "unset" /\ ~(item.json = "object" /\ item.numeric)

\* The store without its malformed values.
Cleaned(st) ==
    [b \in DOMAIN st |-> IF MalformedItem(st[b]) THEN NoItem ELSE st[b]]

\* C29: malformed stored values are treated as absent.  The reducer raises
\* and returns with them what it raises and returns without them, and an
\* agent whose stored value is malformed gets the center of a grid cell.
C29_MalformedIsAbsent ==
    hop.op = "message"
        => /\ state = handleWebSocketMessage(before, data, Cleaned(store))
           /\ Reduced({"initial_state"}) /\ hop.branch = "returned"
                 => \A i \in DOMAIN state.agents :
                       MalformedItem(store[state.agents[i].id])
                          => \E k \in 0..99 :
                                /\ state.agents[i].x = Center(k).x
                                /\ state.agents[i].y = Center(k).y

\* A snapshot put an agent into the first cell although the value stored
\* for it, an object with strings for x and y, names that cell.
C29_Witness ==
    /\ Reduced({"initial_state"})
    /\ hop.branch = "returned"
    /\ \E i \in DOMAIN state.agents :
          /\ state.agents[i].id = "a1"
          /\ store["a1"] = Item("object", FALSE, 100, 100)
          /\ state.agents[i].x = 100 /\ state.agents[i].y = 100

\* The operations that change something at the server.
Mutations ==
    {"createAgent", "deleteAgent", "updateAgent", "startAgent", "stopAgent",
     "queryAgent", "createConnection", "deleteConnection", "executeWorkflow"}

\* C22: when the round-trip of a mutation operation fails, the operation
\* raises nothing to its caller; the failure is in the error field of the
\* canonical state, and nowhere else.
C22_FailureOnlyInErrorField ==
    hop.op \in Mutations /\ hop.branch = "rejected"
        => /\ ~Raised
           /\ state.error # NoError

\* C24: an agent_updated message for an agent that an agent_deleted message
\* has removed leaves the agent absent and the rest of the state as it was,
\* and raises nothing.
C24_UpdateAfterDelete ==
    [][\A msg \in AgentMessages \cup stream :
          /\ msg.type = "agent_updated"
          /\ msg.agent.id \in hist.deleted
          /\ DeliverForeign(msg) \/ DeliverOwn(msg)
          => /\ msg.agent.id \notin Ids(state'.agents)
             /\ state' = state
             /\ hop'.branch = "returned"]_hookVars

\* The update of agent a1 arrived after the agent_deleted message that
\* removed a1 from a list that holds another agent.
C24_Witness ==
    /\ hop = HookOp("message", "returned")
    /\ data.type = "agent_updated"
    /\ data.agent.id \in hist.deleted
    /\ before.agents # <<>>
    /\ state = before

\* Agent id is in the list with the position localStorage holds for it.
AtStored(s, st, id) ==
    \E i \in DOMAIN s.agents :
       /\ s.agents[i].id = id
       /\ s.agents[i].x = st[id].x
       /\ s.agents[i].y = st[id].y

\* C27: a move persists independently of the server.  updateAgentPosition
\* sends no request and puts the agent at (x, y) in localStorage and in the
\* list; an agent of the list is where it was last moved to; and every
\* initial_state or load snapshot that contains a moved agent yields the
\* agent at the position it was moved to.
C27_MovePersists ==
    /\ [][\A id \in OperatedIds, pos \in DropPoints :
             updateAgentPosition(id, pos.x, pos.y)
             => /\ pending' = pending
                /\ Persisted(store', id)
                /\ store'[id].x = pos.x /\ store'[id].y = pos.y
                /\ id \in Ids(state.agents) => AtStored(state', store', id)
          ]_hookVars
    /\ [](\A id \in Ids(state.agents) :
             Persisted(store, id) => AtStored(state, store, id))
    /\ [][\A id \in AgentIds :
             Persisted(store, id)
             => /\ \A msg \in AgentMessages :
                      /\ msg.type = "initial_state"
                      /\ id \in Ids(msg.agents)
                      /\ DeliverForeign(msg)
                      => AtStored(state', store, id)
                /\ \A p \in pending :
                      /\ p.kind = "createAgent"
                      /\ id \in Ids(Snapshot(p).agents)
                      /\ DeliverSnapshot(p)
                      => AtStored(state', store, id)
                /\ \A p \in pending, f \in Fetched :
                      /\ id \in Ids(f.agents)
                      /\ loadResolved(p, f.agents, f.connections)
                      => AtStored(state', store, id)
          ]_hookVars

\* C28: after a deleteAgent whose round-trip succeeded localStorage holds
\* no position for the agent, and the positions of the other agents are
\* the ones it held.
C28_DeleteClearsPosition ==
    [][\A p \in pending :
          deleteAgentResolved(p)
          => /\ store'[p.agent] = NoItem
             /\ \A b \in AgentIds \ {p.agent} : store'[b] = store[b]
      ]_hookVars

\* C30: no two agents of the canonical state have the same id, however the
\* completions of createAgent interleave with the initial_state messages
\* and the loads that hold the created agent.
C30_DistinctAgentIds == DistinctIds(state.agents)

\* C37: a deleteAgent whose round-trip succeeded does not set the error
\* field and raises nothing, and it leaves the agents and the relations to
\* the agent_deleted message of the stream.
C37_DeleteSucceedsQuietly ==
    [][\A p \in pending :
          deleteAgentResolved(p)
          => /\ state'.error = state.error
             /\ ~Raised'
             /\ Lists(state') = Lists(state)
      ]_hookVars

\* C40: every load ends with loading false.  When both requests succeeded,
\* with any number of agents, the lists are the fetched ones and error stays
\* empty; when one failed, the lists are unchanged and error holds a
\* message.
C40_LoadEnds ==
    [][\A p \in pending :
          /\ \A f \in Fetched :
                loadResolved(p, f.agents, f.connections)
                => /\ state'.loading = FALSE
                   /\ state'.agents =
                          Map(f.agents,
                              LAMBDA a : apiAgentToUIAgent(a, store))
                   /\ state'.connections =
                          Map(f.connections, apiConnectionToUIConnection)
                   /\ state.error = NoError => state'.error = NoError
          /\ loadRejected(p)
                => /\ state'.loading = FALSE
                   /\ Lists(state') = Lists(state)
                   /\ state'.error \notin {NoError, ""}
      ]_hookVars

\* What the stream messages applied since loadData sent request p removed
\* and the state still lacks, and what they added and the state still has.
GoneSince(p) ==
    LET cs == {c.change : c \in {d \in hist.since : d.n = p.n}}
    IN  [agents |-> UNION {c.goneAgents : c \in cs} \ Ids(state.agents),
         connections |-> UNION {c.goneConnections : c \in cs}
                             \ Ids(state.connections)]

NewSince(p) ==
    LET cs == {c.change : c \in {d \in hist.since : d.n = p.n}}
    IN  [agents |-> UNION {c.newAgents : c \in cs} \cap Ids(state.agents),
         connections |-> UNION {c.newConnections : c \in cs}
                             \cap Ids(state.connections)]

\* C38: the completion of a load puts back no agent and no relation that a
\* stream message applied after the requests were sent has removed, and
\* drops none that such a message has added.
C38_LoadKeepsLaterEvents ==
    [][\A p \in pending, f \in Fetched :
          p.kind = "load" /\ loadResolved(p, f.agents, f.connections)
          => /\ GoneSince(p).agents \cap Ids(state'.agents) = {}
             /\ GoneSince(p).connections \cap Ids(state'.connections) = {}
             /\ NewSince(p).agents \subseteq Ids(state'.agents)
             /\ NewSince(p).connections \subseteq Ids(state'.connections)
      ]_hookVars

\* C39: no request in flight carries a temporary relation id: neither the
\* DELETE of deleteConnection nor the relations executeWorkflow posts.
C39_NoTempIdSent ==
    \A p \in pending :
       /\ p.kind = "delete" => p.id.kind # "temp"
       /\ p.kind = "workflow"
             => \A i \in DOMAIN p.connections :
                   p.connections[i].id.kind # "temp"

\* C31: no two relations of the canonical state have the same id, however
\* the rollback of a deleteConnection interleaves with the initial_state
\* messages, the loads and the connection_added messages that deliver the
\* relation it puts back.
C31_DistinctRelationIds == DistinctIds(state.connections)

\* The agents an agent_deleted message has removed while request p was in
\* flight and the canonical state still lacks.
GoneDuring(p) ==
    {g.agent : g \in {h \in hist.gone : h.n = p.n}}
        \ {state.agents[i].id : i \in DOMAIN state.agents}

\* C32: the rollback of a failed deleteConnection puts back no relation
\* that starts or ends at an agent an agent_deleted message has removed
\* while the request was in flight.
C32_RollbackAfterAgentDeleted ==
    [][\A p \in pending :
          deleteRejected(p)
          => ({p.conn.fromAgent, p.conn.toAgent} \cap GoneDuring(p) # {}
                 => state'.connections = state.connections)
      ]_hookVars

\* C34: the reconnect attempt counter is between 0 and the maximum of 5, and
\* it is 0 whenever the socket is open, however connect calls, close events
\* and timer firings interleave.
C34_AttemptsInRange ==
    /\ reconnectAttempts \in 0..maxReconnectAttempts
    /\ ReadyState = "OPEN" => reconnectAttempts = 0

\* C33: an observer that removeWebSocketCallback removed while others
\* remained is not registered again and is handed no event until a client
\* calls connectWebSocket with it, whatever timers were pending.
C33_RemovedStaysRemoved ==
    \A c \in hist.dropped :
       /\ ~Includes(wsCallbacks, c)
       /\ c \notin lastFanout.to

\* C35: while the hook is registered, and between the tasks of the browser,
\* the connected flag is true only with the socket open, never in the
\* phases Reconnecting and Failed.
C35_ConnectedOnlyWhileOpen ==
    /\ dispatching = NoSocket
    /\ Includes(wsCallbacks, HookCallback)
    /\ state.connected
    => /\ ReadyState \in {"OPEN", "CLOSING"}
       /\ Phase \notin {"Reconnecting", "Failed"}

\* C36: when the socket a client call of connectWebSocket constructed in
\* phase Failed closes before it has opened, onclose schedules a reconnect
\* with backoff and does not report connection_failed.
C36_RetryAfterFailed ==
    [][lastOp'.op = "close" /\ hist.revived # NoSocket
          => \A r \in SUBSET Callbacks :
                /\ onclose(hist.revived, r)
                /\ ws = hist.revived
                /\ ~sockets[ws].deliberate
                /\ wsCallbacks # <<>>
                => /\ lastOp'.branch = "retry"
                   /\ Scheduled # {}
                   /\ lastFanout'.type # "connection_failed"
      ]_vars

====
